---- MODULE Spec2Model ----
(***************************************************************************)
(* Tracking + crossing-detection core of the speed camera:                 *)
(*   src/services/car_tracker.py                 (calculate_iou, CarTracker)*)
(*   src/services/coordinate_crossing_detector.py (detect_crossings)       *)
(*   src/models/detection_result.py              (the data classes)        *)
(* A caller feeds frames of detections to CarTracker.update and calls       *)
(* CoordinateCrossingDetector.detect_crossings on registered identities.    *)
(***************************************************************************)
EXTENDS Integers, Sequences, FiniteSets, TLC

\* ------------------------------------------------------------------ bounds
\* Pixel columns are 0..MaxX.
MaxX == 4
\* Frames are numbered 1..MaxFrame (the pipeline's frame_one_based).
MaxFrame == 4
\* At most MaxDets detections are passed to one update call.
MaxDets == 2
\* At most MaxDetections detections are reported over one run.
MaxDetections == 4
\* Largest frame number handed to the speed calculator.
MaxSpeedFrame == 30
\* Frames fed to the controller on the two-lane road.
MaxRoadFrame == 3
\* Box corners handed to calculate_iou on its own are 0..MaxCoordinate.
MaxCoordinate == 3
\* Frames of the longest video file opened.
MaxVideoFrames == 4
\* get_frame calls made while one iteration over a video is under way.
MaxFetches == 3
\* Widest frame, in pixel columns, of a video whose coordinates are scaled.
MaxWidth == 6
\* Frames of the longest video the video controller navigates.
MaxNavigatedFrames == 12
\* Frames of the video opened in the main window.
MaxWindowFrames == 3
\* Detection workers the main window creates.
MaxWorkers == 3

\* ------------------------------------------------------------ configuration
\* Optional[int] = None; no frame number, track id or pixel column is negative.
None == -1

\* The configured reference lines (self.left_coordinate, self.right_coordinate
\* of the crossing detector): pixel columns with left < right, inside the grid.
left_coordinate == 2
right_coordinate == 3

\* CarTracker.__init__(iou_threshold = 0.3), kept as the fraction 3/10.
iou_threshold == [num |-> 3, den |-> 10]

\* --------------------------------------------------------------- data model
BoundingBox(x1, y1, x2, y2) == [x1 |-> x1, y1 |-> y1, x2 |-> x2, y2 |-> y2]

width(bbox) == bbox.x2 - bbox.x1

height(bbox) == bbox.y2 - bbox.y1

\* confidence is carried in percent; class_id / class_name are never read by
\* the tracker or the crossing detector and are left out.
DetectionResult(frame_number, bounding_box, confidence) ==
    [frame_number |-> frame_number, bounding_box |-> bounding_box,
     confidence |-> confidence]

\* TrackedCar(track_id = ...) with the dataclass defaults.
TrackedCar(track_id) ==
    [track_id |-> track_id, detections |-> <<>>,
     first_detection_frame |-> None, last_detection_frame |-> None,
     left_crossing_frame |-> None, right_crossing_frame |-> None]

\* Variant: first_detection_frame written on every add.
add_detection_first_overwritten(tracked_car, detection) ==
    [tracked_car EXCEPT
        !.detections = Append(@, detection),
        !.first_detection_frame = detection.frame_number,
        !.last_detection_frame = detection.frame_number]

\* Variant: the car rebuilt around its history, the crossing frames left at
\* their defaults.
add_detection_rebuilt(tracked_car, detection) ==
    [track_id |-> tracked_car.track_id,
     detections |-> Append(tracked_car.detections, detection),
     first_detection_frame |->
         IF tracked_car.first_detection_frame = None
         THEN detection.frame_number ELSE tracked_car.first_detection_frame,
     last_detection_frame |-> detection.frame_number,
     left_crossing_frame |-> None, right_crossing_frame |-> None]

\* TrackedCar.add_detection
add_detection(tracked_car, detection) ==
    [tracked_car EXCEPT
        !.detections = Append(@, detection),
        !.first_detection_frame =
            IF @ = None THEN detection.frame_number ELSE @,
        !.last_detection_frame = detection.frame_number]

\* Variant: one recorded crossing taken to be enough.
is_complete_either(tracked_car) ==
    tracked_car.left_crossing_frame # None \/ tracked_car.right_crossing_frame # None

is_complete(tracked_car) ==
    tracked_car.left_crossing_frame # None /\ tracked_car.right_crossing_frame # None

\* The field names the CoordinateCrossingEvent dataclass declares.
CoordinateCrossingEventFields ==
    {"track_id", "frame_number", "coordinate_type", "coordinate_value",
     "car_center_x", "confidence"}

\* The dataclass-generated __init__ called with keyword arguments: it accepts
\* exactly the declared fields and raises TypeError for any other keyword.
CoordinateCrossingEvent(kwargs) ==
    [ok |-> DOMAIN kwargs = CoordinateCrossingEventFields, value |-> kwargs]

\* -------------------------------------------------------------------- inputs
\* The boxes a detector may report: a car entering at the left edge of the
\* picture, its rightmost edge x2 anywhere on the grid.
Boxes == {BoundingBox(0, 0, x2, 1) : x2 \in 1..MaxX}

Confidences == {90}

DetectionsOfFrame(frame_number) ==
    {DetectionResult(frame_number, b, c) : b \in Boxes, c \in Confidences}

DetectionLists(frame_number) ==
    UNION {[1..n -> DetectionsOfFrame(frame_number)] : n \in 0..MaxDets}

\* ----------------------------------------------------------------- fractions
\* IoU values are quotients of small integers; they are compared exactly.
Zero == [num |-> 0, den |-> 1]

FracLess(p, q) ==
    IF p.den * q.den > 0 THEN p.num * q.den < q.num * p.den
    ELSE p.num * q.den > q.num * p.den

FracGreater(p, q) == FracLess(q, p)

FracGeq(p, q) == ~FracLess(p, q)

\* Python's float arithmetic on the quotients (rounding left out): true
\* division, multiplication, and the lowest-terms form that makes two equal
\* quotients the same value.
RECURSIVE Gcd(_, _)
Gcd(a, b) == IF b = 0 THEN a ELSE Gcd(b, a % b)

Abs(a) == IF a < 0 THEN -a ELSE a

Frac(n, d) ==
    LET g == Gcd(Abs(n), Abs(d))
    IN  IF d < 0 THEN [num |-> (-n) \div g, den |-> (-d) \div g]
        ELSE [num |-> n \div g, den |-> d \div g]

FracOfInt(n) == [num |-> n, den |-> 1]

FracMul(p, q) == Frac(p.num * q.num, p.den * q.den)

FracDiv(p, q) == Frac(p.num * q.den, p.den * q.num)

FracLeq(p, q) == ~FracLess(q, p)

Max2(a, b) == IF a >= b THEN a ELSE b

Min2(a, b) == IF a <= b THEN a ELSE b

Last(s) == s[Len(s)]

\* ------------------------------------------------------------- calculate_iou
\* Variant: the second area taken from the first box.
calculate_iou_first_area_twice(box1, box2) ==
    LET bbox1 == box1.bounding_box
        bbox2 == box2.bounding_box
        x1 == Max2(bbox1.x1, bbox2.x1)
        y1 == Max2(bbox1.y1, bbox2.y1)
        x2 == Min2(bbox1.x2, bbox2.x2)
        y2 == Min2(bbox1.y2, bbox2.y2)
        intersection == (x2 - x1) * (y2 - y1)
        area1 == width(bbox1) * height(bbox1)
        area2 == width(bbox1) * height(bbox1)
        union == area1 + area2 - intersection
    IN  IF x2 <= x1 \/ y2 <= y1 THEN Zero
        ELSE IF union = 0 THEN Zero
        ELSE [num |-> intersection, den |-> union]

\* Variant: no early return for boxes that do not overlap.
calculate_iou_unguarded(box1, box2) ==
    LET bbox1 == box1.bounding_box
        bbox2 == box2.bounding_box
        x1 == Max2(bbox1.x1, bbox2.x1)
        y1 == Max2(bbox1.y1, bbox2.y1)
        x2 == Min2(bbox1.x2, bbox2.x2)
        y2 == Min2(bbox1.y2, bbox2.y2)
        intersection == (x2 - x1) * (y2 - y1)
        area1 == width(bbox1) * height(bbox1)
        area2 == width(bbox2) * height(bbox2)
        union == area1 + area2 - intersection
    IN  IF union = 0 THEN Zero
        ELSE [num |-> intersection, den |-> union]

calculate_iou(box1, box2) ==
    LET bbox1 == box1.bounding_box
        bbox2 == box2.bounding_box
        x1 == Max2(bbox1.x1, bbox2.x1)
        y1 == Max2(bbox1.y1, bbox2.y1)
        x2 == Min2(bbox1.x2, bbox2.x2)
        y2 == Min2(bbox1.y2, bbox2.y2)
        intersection == (x2 - x1) * (y2 - y1)
        area1 == width(bbox1) * height(bbox1)
        area2 == width(bbox2) * height(bbox2)
        union == area1 + area2 - intersection
    IN  IF x2 <= x1 \/ y2 <= y1 THEN Zero
        ELSE IF union = 0 THEN Zero
        ELSE [num |-> intersection, den |-> union]

\* ------------------------------------------------------------------- state
VARIABLES
    tracked_cars,   \* CarTracker.tracked_cars: track id -> TrackedCar
    dict_order,     \* the keys of tracked_cars in insertion (iteration) order
    next_track_id,  \* CarTracker.next_track_id
    clock,          \* number of the frame being processed (0 before the first)
    queue,          \* cars the loop over update's result has still to visit
    created,        \* number of TrackedCar objects the tracker has created
    returned,       \* the last call: its arguments, what it returned, or that it raised
    before,         \* tracked_cars as the last call found it
    emitted,        \* per identity, the events detect_crossings has returned so far
    audit,          \* per identity, the history of calls made on it
    calculator,     \* the SpeedCalculator (None in a process that builds none)
    speed_call,     \* the last call made on the speed calculator or SpeedMeasurement
    video,          \* process_video: the detections of each frame of the video
    pc,             \* process_video: "frames", "done", "raised" or "failed"
    tracked_cars_with_crossings,   \* process_video: completed cars, by track id
    speed_measurements,            \* process_video: ProcessingResult.speed_measurements
    error_message,                 \* process_video: the exception that ended the run
    calls,          \* the calls made on a function or class taken on its own, in order
    cap,            \* VideoProcessor.cap: the frames of the file and the read position
    iterator,       \* the generator VideoProcessor.iter_frames returned
    current_frame_number,   \* VideoController.current_frame_number (1-indexed)
    frame_cache,    \* VideoController.frame_cache: its keys in insertion order
    controls,       \* which navigation controls are enabled
    detection_worker,   \* MainWindow._detection_worker (None, or a place in workers)
    workers,        \* every DetectionWorker created: its frame and where its run() is
    posted,         \* signals the workers emitted, queued for the window's thread
    handler         \* the window's thread: idle, or waiting inside a handler

tracker_vars ==
    <<tracked_cars, dict_order, next_track_id, clock, queue, created, returned,
      before, emitted, audit>>

speed_vars == <<calculator, speed_call>>

cli_vars ==
    <<video, pc, tracked_cars_with_crossings, speed_measurements, error_message>>

vars ==
    <<tracked_cars, dict_order, next_track_id, clock, queue, created, returned,
      before, emitted, audit, calculator, speed_call, video, pc,
      tracked_cars_with_crossings, speed_measurements, error_message, calls,
      cap, iterator, current_frame_number, frame_cache, controls,
      detection_worker, workers, posted, handler>>

window_vars == <<controls, detection_worker, workers, posted, handler>>

viewer_vars ==
    <<cap, iterator, current_frame_number, frame_cache, controls,
      detection_worker, workers, posted, handler>>

\* No video file opened.
NoViewer ==
    /\ cap = None
    /\ iterator = None
    /\ current_frame_number = None
    /\ frame_cache = <<>>
    /\ controls = None
    /\ detection_worker = None
    /\ workers = <<>>
    /\ posted = <<>>
    /\ handler = None

\* ------------------------------------------------------- CarTracker.update
\* Variant: tracks matched earlier in the call not skipped.
is_matched_never(track_id, matched_tracks) == FALSE

\* `if track_id in matched_tracks: continue`
is_matched(track_id, matched_tracks) == track_id \in matched_tracks

\* Variant: the threshold test left out.
is_better_match_any_overlap(iou, best_iou) == FracGreater(iou, best_iou)

\* Variant: a candidate accepted when it is not worse than the best so far.
is_better_match_not_worse(iou, best_iou) == FracGeq(iou, best_iou)

\* Variant: a candidate that equals the best so far replaces it.
is_better_match_last_tie(iou, best_iou) ==
    FracGeq(iou, best_iou) /\ FracGeq(iou, iou_threshold)

\* `if iou > best_iou and iou >= self.iou_threshold`
is_better_match(iou, best_iou) ==
    FracGreater(iou, best_iou) /\ FracGeq(iou, iou_threshold)

\* Variant: a track compared by its oldest detection.
last_detection_oldest(tracked_car) == tracked_car.detections[1]

\* The detection a track is compared with: `tracked_car.detections[-1]`.
last_detection(tracked_car) == Last(tracked_car.detections)

\* The inner loop `for track_id, tracked_car in self.tracked_cars.items()`,
\* from position j of the iteration order on; best = (best_iou, best_track_id).
RECURSIVE best_match(_, _, _, _, _, _)
best_match(detection, cars, order, matched_tracks, j, best) ==
    IF j > Len(order) THEN best
    ELSE LET track_id == order[j]
             tracked_car == cars[track_id]
             iou == calculate_iou(detection, last_detection(tracked_car))
         IN  IF is_matched(track_id, matched_tracks)
             THEN best_match(detection, cars, order, matched_tracks, j + 1, best)
             ELSE IF tracked_car.detections # <<>> /\ is_better_match(iou, best.best_iou)
             THEN best_match(detection, cars, order, matched_tracks, j + 1,
                             [best_iou |-> iou, best_track_id |-> track_id])
             ELSE best_match(detection, cars, order, matched_tracks, j + 1, best)

\* The first loop `for detection in detections`, from detection i on.
\* Detections are objects of their own, so id(detection) is their position.
RECURSIVE match_detections(_, _, _, _)
match_detections(detections, order, i, st) ==
    IF i > Len(detections) THEN st
    ELSE LET best == best_match(detections[i], st.cars, order, st.matched_tracks, 1,
                                [best_iou |-> Zero, best_track_id |-> None])
         IN  IF best.best_track_id # None
             THEN match_detections(detections, order, i + 1,
                    [cars |-> [st.cars EXCEPT ![best.best_track_id] =
                                  add_detection(@, detections[i])],
                     matched_tracks |-> st.matched_tracks \cup {best.best_track_id},
                     matched_detections |-> st.matched_detections \cup {i}])
             ELSE match_detections(detections, order, i + 1, st)

\* Variant: the counter not advanced.
next_id_stuck(track_id) == track_id

\* `self.next_track_id += 1`
next_id(track_id) == track_id + 1

\* Variant: the registry replaced by one holding the new track alone.
dict_set_only(st, key, value) ==
    [cars |-> [k \in {key} |-> value],
     order |-> <<key>>,
     next_track_id |-> st.next_track_id,
     new_tracks |-> st.new_tracks + 1]

\* `self.tracked_cars[key] = value` on an insertion-ordered dict, storing a
\* TrackedCar that was just constructed (new_tracks counts the constructions).
dict_set(st, key, value) ==
    [cars |-> [k \in DOMAIN st.cars \cup {key} |->
                  IF k = key THEN value ELSE st.cars[k]],
     order |-> IF key \in DOMAIN st.cars THEN st.order ELSE Append(st.order, key),
     next_track_id |-> st.next_track_id,
     new_tracks |-> st.new_tracks + 1]

\* The second loop: a new track for every detection left unmatched.
RECURSIVE create_tracks(_, _, _, _)
create_tracks(detections, matched_detections, i, st) ==
    IF i > Len(detections) THEN st
    ELSE IF i \notin matched_detections
    THEN LET new_track == add_detection(TrackedCar(st.next_track_id), detections[i])
             stored == dict_set(st, st.next_track_id, new_track)
         IN  create_tracks(detections, matched_detections, i + 1,
                           [stored EXCEPT !.next_track_id = next_id(@)])
    ELSE create_tracks(detections, matched_detections, i + 1, st)

\* Variant: nothing returned.
values_list_none(cars, order) == <<>>

\* `list(self.tracked_cars.values())`, each car named by its track_id.
values_list(cars, order) == [j \in 1..Len(order) |-> cars[order[j]].track_id]

\* Variant: a frame without detections taken as a reason to advance the counter.
update_no_detections_counting(cars, order, next_track) ==
    [cars |-> cars, order |-> order, next_track_id |-> next_track + 1,
     new_tracks |-> 0, result |-> values_list(cars, order)]

\* `if not detections: return list(self.tracked_cars.values())`
update_no_detections(cars, order, next_track) ==
    [cars |-> cars, order |-> order, next_track_id |-> next_track,
     new_tracks |-> 0, result |-> values_list(cars, order)]

\* CarTracker.update(detections, frame_number) as a function of the tracker.
update(cars, order, next_track, detections) ==
    IF detections = <<>>
    THEN update_no_detections(cars, order, next_track)
    ELSE LET m == match_detections(detections, order, 1,
                    [cars |-> cars, matched_tracks |-> {}, matched_detections |-> {}])
             c == create_tracks(detections, m.matched_detections, 1,
                    [cars |-> m.cars, order |-> order, next_track_id |-> next_track,
                     new_tracks |-> 0])
         IN  [cars |-> c.cars, order |-> c.order, next_track_id |-> c.next_track_id,
              new_tracks |-> c.new_tracks, result |-> values_list(c.cars, c.order)]

\* ------------------------------ CoordinateCrossingDetector.detect_crossings
\* Variant: the left-side block entered whether or not a crossing is recorded.
left_check_always(tracked_car) == TRUE

\* `if tracked_car.left_crossing_frame is None`
left_check(tracked_car) == tracked_car.left_crossing_frame = None

\* Variant: the right-side block entered again after the right crossing is
\* recorded.
right_check_again(tracked_car) == tracked_car.left_crossing_frame # None

\* Variant: the right-side block entered before the left crossing is recorded.
right_check_without_left(tracked_car) == tracked_car.right_crossing_frame = None

\* `if tracked_car.left_crossing_frame is not None and
\*     tracked_car.right_crossing_frame is None`
right_check(tracked_car) ==
    tracked_car.left_crossing_frame # None /\ tracked_car.right_crossing_frame = None

\* Variant: a single detection taken to have a previous one.
has_previous_off_by_one(tracked_car) == Len(tracked_car.detections) > 0

\* `if len(tracked_car.detections) > 1`, later `previous_rightmost_x is not None`
has_previous(tracked_car) == Len(tracked_car.detections) > 1

\* previous_rightmost_x: x2 of detections[-2], None without a previous detection.
previous_x(tracked_car) ==
    IF Len(tracked_car.detections) > 1
    THEN tracked_car.detections[Len(tracked_car.detections) - 1].bounding_box.x2
    ELSE None

\* Variant: a current x2 equal to the coordinate not counted as crossed.
transition_strict(previous_rightmost_x, car_rightmost_x, coordinate) ==
    previous_rightmost_x < coordinate /\ car_rightmost_x > coordinate

\* Variant: the static threshold test, without the previous detection.
transition_threshold(previous_rightmost_x, car_rightmost_x, coordinate) ==
    car_rightmost_x >= coordinate

\* `previous_rightmost_x < coordinate and car_rightmost_x >= coordinate`
transition(previous_rightmost_x, car_rightmost_x, coordinate) ==
    previous_rightmost_x < coordinate /\ car_rightmost_x >= coordinate

\* Variant: the rightmost x passed under the keyword the dataclass declares.
event_kwargs_declared(tracked_car, frame_number, coordinate_type, coordinate_value, latest_detection) ==
    [track_id |-> tracked_car.track_id, frame_number |-> frame_number,
     coordinate_type |-> coordinate_type, coordinate_value |-> coordinate_value,
     car_center_x |-> latest_detection.bounding_box.x2,
     confidence |-> latest_detection.confidence]

\* The keyword arguments detect_crossings passes to CoordinateCrossingEvent.
event_kwargs(tracked_car, frame_number, coordinate_type, coordinate_value, latest_detection) ==
    [track_id |-> tracked_car.track_id, frame_number |-> frame_number,
     coordinate_type |-> coordinate_type, coordinate_value |-> coordinate_value,
     car_rightmost_x |-> latest_detection.bounding_box.x2,
     confidence |-> latest_detection.confidence]

\* detect_crossings(tracked_car, frame_number) with debug off: the car as the
\* call leaves it, the events returned, and whether the call raised instead
\* of returning (an exception leaves the assignments made before it in place).
detect_crossings(tracked_car, frame_number) ==
    IF tracked_car.detections = <<>>
    THEN [tracked_car |-> tracked_car, events |-> <<>>, raised |-> FALSE]
    ELSE
    LET n == Len(tracked_car.detections)
        latest_detection == tracked_car.detections[n]
        car_rightmost_x == latest_detection.bounding_box.x2
        previous_rightmost_x == previous_x(tracked_car)
        left_fires ==
            /\ left_check(tracked_car)
            /\ has_previous(tracked_car)
            /\ transition(previous_rightmost_x, car_rightmost_x, left_coordinate)
        car1 == IF left_fires
                THEN [tracked_car EXCEPT !.left_crossing_frame = frame_number]
                ELSE tracked_car
        left_event == CoordinateCrossingEvent(
            event_kwargs(tracked_car, frame_number, "left", left_coordinate,
                         latest_detection))
        events1 == IF left_fires THEN <<left_event.value>> ELSE <<>>
        right_fires ==
            /\ right_check(car1)
            /\ has_previous(tracked_car)
            /\ transition(previous_rightmost_x, car_rightmost_x, right_coordinate)
        car2 == IF right_fires
                THEN [car1 EXCEPT !.right_crossing_frame = frame_number]
                ELSE car1
        right_event == CoordinateCrossingEvent(
            event_kwargs(tracked_car, frame_number, "right", right_coordinate,
                         latest_detection))
        events2 == IF right_fires THEN Append(events1, right_event.value) ELSE events1
    IN  IF left_fires /\ ~left_event.ok
        THEN [tracked_car |-> car1, events |-> <<>>, raised |-> TRUE]
        ELSE IF right_fires /\ ~right_event.ok
        THEN [tracked_car |-> car2, events |-> <<>>, raised |-> TRUE]
        ELSE [tracked_car |-> car2, events |-> events2, raised |-> FALSE]

\* ------------------------------------------------------- raise and return
\* What a call that may raise yields: the exception, or the value returned.
Raise(error) == [raised |-> TRUE, error |-> error]

Return(value) == [raised |-> FALSE, value |-> value]

\* ------------------------------------------------------------ Configuration
\* Optional[int]: no value, or the value.
NoValue == <<>>

Some(v) == <<v>>

\* `errors.append(...)` when the condition holds.
append_if(errors, condition, error) ==
    IF condition THEN Append(errors, error) ELSE errors

\* Variant: every check after the first failed one left out.
validate_first_only(kwargs) ==
    IF kwargs.left_coordinate < 0
    THEN <<[text |-> "left_coordinate must be >= 0", args |-> <<>>]>>
    ELSE IF kwargs.right_coordinate <= kwargs.left_coordinate
    THEN <<[text |-> "right_coordinate ({}) must be > left_coordinate ({})",
            args |-> <<kwargs.right_coordinate, kwargs.left_coordinate>>]>>
    ELSE IF FracLeq(kwargs.distance, Zero)
    THEN <<[text |-> "distance must be > 0", args |-> <<>>]>>
    ELSE IF FracLeq(kwargs.fps, Zero)
    THEN <<[text |-> "fps must be > 0", args |-> <<>>]>>
    ELSE IF kwargs.downsize_video # NoValue /\ kwargs.downsize_video[1] <= 0
    THEN <<[text |-> "downsize_video must be > 0 if specified", args |-> <<>>]>>
    ELSE <<>>

\* Configuration._validate up to `if errors`: the list of error texts, an
\* f-string kept as its text and the values it formats.
validate(kwargs) ==
    LET e1 == append_if(<<>>, kwargs.left_coordinate < 0,
                        [text |-> "left_coordinate must be >= 0", args |-> <<>>])
        e2 == append_if(e1, kwargs.right_coordinate <= kwargs.left_coordinate,
                        [text |-> "right_coordinate ({}) must be > left_coordinate ({})",
                         args |-> <<kwargs.right_coordinate, kwargs.left_coordinate>>])
        e3 == append_if(e2, FracLeq(kwargs.distance, Zero),
                        [text |-> "distance must be > 0", args |-> <<>>])
        e4 == append_if(e3, FracLeq(kwargs.fps, Zero),
                        [text |-> "fps must be > 0", args |-> <<>>])
        e5 == append_if(e4, kwargs.downsize_video # NoValue /\ kwargs.downsize_video[1] <= 0,
                        [text |-> "downsize_video must be > 0 if specified", args |-> <<>>])
    IN  e5

\* Configuration(**kwargs): the dataclass and its __post_init__. The message of
\* the error is "Invalid configuration: " followed by the errors joined by "; ".
Configuration(kwargs) ==
    LET errors == validate(kwargs)
    IN  IF errors # <<>>
        THEN Raise([type |-> "InvalidConfigurationError",
                    message |-> [prefix |-> "Invalid configuration: ",
                                 joined |-> errors, separator |-> "; "]])
        ELSE Return(kwargs)

\* --------------------------------------------------------- SpeedMeasurement
\* Variant: a measurement constructed without validation.
SpeedMeasurement_unchecked(kwargs) == Return(kwargs)

\* SpeedMeasurement(**kwargs): the dataclass and its __post_init__.
SpeedMeasurement(kwargs) ==
    IF ~kwargs.is_valid THEN Return(kwargs)
    ELSE IF kwargs.frame_count <= 0
    THEN Raise("frame_count must be > 0 for valid measurement")
    ELSE IF FracLeq(kwargs.time_seconds, Zero)
    THEN Raise("time_seconds must be > 0 for valid measurement")
    ELSE IF FracLess(kwargs.speed_kmh, Zero)
    THEN Raise("speed_kmh must be >= 0")
    ELSE Return(kwargs)

\* ---------------------------------------------------------- SpeedCalculator
\* SpeedCalculator(config): distance in metres and the frame rate.
SpeedCalculator(config) ==
    [config |-> config,
     distance_meters |-> FracDiv(config.distance, FracOfInt(100)),
     fps |-> config.fps]

\* Variant: the distance between the two frames taken without its sign.
frame_count_unsigned(left_crossing_frame, right_crossing_frame) ==
    Abs(right_crossing_frame - left_crossing_frame)

\* `frame_count = right_crossing_frame - left_crossing_frame`
frame_count_of(left_crossing_frame, right_crossing_frame) ==
    right_crossing_frame - left_crossing_frame

\* Variant: metres per second divided by 3.6.
to_kmh_divided(speed_ms) == FracDiv(speed_ms, Frac(36, 10))

\* `speed_kmh = speed_ms * 3.6`
to_kmh(speed_ms) == FracMul(speed_ms, Frac(36, 10))

\* SpeedCalculator.calculate
calculate(self, left_crossing_frame, right_crossing_frame, track_id, confidence) ==
    LET frame_count == frame_count_of(left_crossing_frame, right_crossing_frame)
        time_seconds == FracDiv(FracOfInt(frame_count), self.fps)
        speed_ms == FracDiv(self.distance_meters, time_seconds)
        speed_kmh == to_kmh(speed_ms)
    IN  IF frame_count <= 0
        THEN Raise("frame_count must be > 0")
        ELSE IF FracLeq(time_seconds, Zero)
        THEN Raise("time_seconds must be > 0")
        ELSE SpeedMeasurement(
                 [speed_kmh |-> speed_kmh,
                  speed_ms |-> speed_ms,
                  frame_count |-> frame_count,
                  time_seconds |-> time_seconds,
                  distance_meters |-> self.distance_meters,
                  left_crossing_frame |-> left_crossing_frame,
                  right_crossing_frame |-> right_crossing_frame,
                  track_id |-> track_id,
                  confidence |-> confidence,
                  is_valid |-> TRUE])

\* `sum(d.confidence for d in tracked_car.detections)`
RECURSIVE sum_confidence(_)
sum_confidence(detections) ==
    IF detections = <<>> THEN 0
    ELSE Head(detections).confidence + sum_confidence(Tail(detections))

\* The average confidence of a track, 0.0 for a track without detections.
avg_confidence(tracked_car) ==
    IF tracked_car.detections # <<>>
    THEN Frac(sum_confidence(tracked_car.detections), Len(tracked_car.detections))
    ELSE Zero

\* SpeedCalculator.calculate_from_tracked_car
calculate_from_tracked_car(self, tracked_car) ==
    IF ~is_complete(tracked_car)
    THEN Raise("TrackedCar must have crossed both coordinates")
    ELSE IF tracked_car.right_crossing_frame <= tracked_car.left_crossing_frame
    THEN Raise("Right crossing frame must be greater than left crossing frame")
    ELSE calculate(self, tracked_car.left_crossing_frame,
                   tracked_car.right_crossing_frame, tracked_car.track_id,
                   avg_confidence(tracked_car))

\* ----------------------------------------------------------- call history
\* What is remembered about the calls made on one identity:
\*   uncalled      a detection was appended since the last detect_crossings call
\*   every_append  detect_crossings was called after every detection appended
\*                 before the latest one
\*   left_index    length of the history when left_crossing_frame was set
\*   first_call    for every length the history has had, the frame_number of the
\*                 first detect_crossings call made at that length (None: no call)
NewAudit ==
    [uncalled |-> TRUE, every_append |-> TRUE, left_index |-> None,
     first_call |-> <<None>>]

NoEvents == <<>>

IsPrefix(s, t) == Len(s) <= Len(t) /\ \A i \in 1..Len(s) : s[i] = t[i]

\* The identity stored under key k after an update is the one stored before.
SameIdentity(k, cars) ==
    /\ k \in DOMAIN tracked_cars
    /\ tracked_cars[k].track_id = cars[k].track_id
    /\ IsPrefix(tracked_cars[k].detections, cars[k].detections)

CountType(events, coordinate_type) ==
    Cardinality({i \in 1..Len(events) : events[i].coordinate_type = coordinate_type})

RECURSIVE SumLen(_, _)
SumLen(cars, keys) ==
    IF keys = {} THEN 0
    ELSE LET k == CHOOSE x \in keys : TRUE
         IN  Len(cars[k].detections) + SumLen(cars, keys \ {k})

\* Detections reported so far (every detection is appended to one identity).
TotalDetections == SumLen(tracked_cars, DOMAIN tracked_cars)

\* ------------------------------------------------------------------ actions
\* CarTracker() and the first frame not yet read.
TrackerInit ==
    /\ tracked_cars = <<>>
    /\ dict_order = <<>>
    /\ next_track_id = 1
    /\ clock = 0
    /\ queue = <<>>
    /\ created = 0
    /\ returned = [op |-> "init", track_id |-> None, frame_number |-> None,
                   raised |-> FALSE, events |-> <<>>, detections |-> <<>>,
                   tracked_cars |-> <<>>]
    /\ before = <<>>
    /\ emitted = <<>>
    /\ audit = <<>>

\* No call made on the speed calculator yet.
NoCall == [op |-> "none"]

\* The detection controller: a tracker and a crossing detector, no speed
\* calculator and no video run.
Init ==
    /\ TrackerInit
    /\ calculator = None
    /\ speed_call = NoCall
    /\ video = <<>>
    /\ pc = "controller"
    /\ tracked_cars_with_crossings = <<>>
    /\ speed_measurements = <<>>
    /\ error_message = ""
    /\ calls = <<>>
    /\ NoViewer

\* process_frame, first half: the next frame is read, the vehicle detector
\* stamps its detections with the frame's number, CarTracker.update is called
\* and the loop over the list it returns begins.
Update(detections) ==
    /\ queue = <<>>
    /\ clock < MaxFrame
    /\ TotalDetections + Len(detections) <= MaxDetections
    /\ \E u \in {update(tracked_cars, dict_order, next_track_id, detections)} :
           /\ tracked_cars' = u.cars
           /\ dict_order' = u.order
           /\ next_track_id' = u.next_track_id
           /\ queue' = u.result
           /\ created' = created + u.new_tracks
           /\ returned' = [op |-> "update", track_id |-> None,
                           frame_number |-> clock + 1, raised |-> FALSE,
                           events |-> <<>>, detections |-> detections,
                           tracked_cars |-> u.result]
           /\ emitted' = [k \in DOMAIN u.cars |->
                             IF SameIdentity(k, u.cars) THEN emitted[k] ELSE NoEvents]
           /\ audit' = [k \in DOMAIN u.cars |->
                           IF ~SameIdentity(k, u.cars) THEN NewAudit
                           ELSE IF Len(u.cars[k].detections) > Len(tracked_cars[k].detections)
                           THEN [audit[k] EXCEPT
                                    !.every_append = @ /\ ~audit[k].uncalled,
                                    !.uncalled = TRUE,
                                    !.first_call = Append(@, None)]
                           ELSE audit[k]]
    /\ before' = tracked_cars
    /\ clock' = clock + 1

\* process_frame, second half: one turn of `for tracked_car in tracked_cars`,
\* calling detect_crossings with the frame's number. A call that raises ends
\* the loop; the caller (the detection worker) catches the exception and the
\* same tracker goes on to the next frame.
DetectCrossings(track_id, frame_number) ==
    /\ queue # <<>>
    /\ track_id = Head(queue)
    /\ frame_number = clock
    /\ \E r \in {detect_crossings(tracked_cars[track_id], frame_number)} :
           /\ tracked_cars' = [tracked_cars EXCEPT ![track_id] = r.tracked_car]
           /\ queue' = IF r.raised THEN <<>> ELSE Tail(queue)
           /\ returned' = [op |-> "detect_crossings", track_id |-> track_id,
                           frame_number |-> frame_number, raised |-> r.raised,
                           events |-> r.events, detections |-> <<>>,
                           tracked_cars |-> <<>>]
           /\ emitted' = [emitted EXCEPT ![track_id] = @ \o r.events]
           /\ audit' = [audit EXCEPT ![track_id] =
                           [uncalled |-> FALSE,
                            every_append |-> @.every_append,
                            left_index |->
                                IF r.tracked_car.left_crossing_frame #
                                       tracked_cars[track_id].left_crossing_frame
                                THEN Len(tracked_cars[track_id].detections)
                                ELSE @.left_index,
                            first_call |->
                                [@.first_call EXCEPT ![Len(@.first_call)] =
                                    IF @ = None THEN frame_number ELSE @]]]
    /\ before' = tracked_cars
    /\ UNCHANGED <<dict_order, next_track_id, clock, created>>

Next ==
    \/ /\ queue = <<>>
       /\ clock < MaxFrame
       /\ \E detections \in DetectionLists(clock + 1) : Update(detections)
       /\ UNCHANGED <<speed_vars, cli_vars, calls, viewer_vars>>
    \/ /\ \E track_id \in DOMAIN tracked_cars, frame_number \in 1..MaxFrame :
              DetectCrossings(track_id, frame_number)
       /\ UNCHANGED <<speed_vars, cli_vars, calls, viewer_vars>>

Spec == Init /\ [][Next]_vars

\* ----------------------------------------------- the speed calculator alone
\* Configuration objects that pass Configuration._validate: distance in
\* centimetres > 0 and fps > 0.
Distances == {150, 200}

FrameRates == {25, 30}

Configurations ==
    {[distance |-> FracOfInt(d), fps |-> FracOfInt(f)] : d \in Distances, f \in FrameRates}

\* Arguments of calculate.
SpeedFrames == 0..MaxSpeedFrame

SpeedTrackIds == {1, 2}

SpeedConfidences == {Zero, Frac(17, 20)}

\* Tracked cars handed to calculate_from_tracked_car: any crossing frames,
\* set or not, and up to two detections.
SpeedDetections ==
    UNION {[1..n -> {DetectionResult(f, BoundingBox(0, 0, 1, 1), c) :
                        f \in {1}, c \in {80, 90}}] : n \in 0..2}

SpeedCars ==
    {[TrackedCar(t) EXCEPT !.detections = ds,
                           !.left_crossing_frame = l,
                           !.right_crossing_frame = r] :
        t \in SpeedTrackIds, ds \in SpeedDetections,
        l \in SpeedFrames \cup {None}, r \in SpeedFrames \cup {None}}

\* Keyword arguments a caller may hand to SpeedMeasurement directly.
MeasurementKwargs ==
    {[speed_kmh |-> k, speed_ms |-> FracOfInt(2), frame_count |-> n,
      time_seconds |-> t, distance_meters |-> FracOfInt(2),
      left_crossing_frame |-> 0, right_crossing_frame |-> 30, track_id |-> 1,
      confidence |-> Frac(17, 20), is_valid |-> v] :
        k \in {FracOfInt(-1), Zero, Frac(36, 5)}, n \in {-1, 0, 30},
        t \in {FracOfInt(-1), Zero, FracOfInt(1)}, v \in BOOLEAN}

\* SpeedCalculator(config) built from a valid configuration, nothing called.
InitSpeed ==
    /\ TrackerInit
    /\ calculator \in {SpeedCalculator(config) : config \in Configurations}
    /\ speed_call = NoCall
    /\ video = <<>>
    /\ pc = "calculator"
    /\ tracked_cars_with_crossings = <<>>
    /\ speed_measurements = <<>>
    /\ error_message = ""
    /\ calls = <<>>
    /\ NoViewer

\* A call of SpeedCalculator.calculate.
Calculate(left_crossing_frame, right_crossing_frame, track_id, confidence) ==
    /\ speed_call = NoCall
    /\ speed_call' =
          [op |-> "calculate",
           left_crossing_frame |-> left_crossing_frame,
           right_crossing_frame |-> right_crossing_frame,
           track_id |-> track_id,
           confidence |-> confidence,
           result |-> calculate(calculator, left_crossing_frame,
                                right_crossing_frame, track_id, confidence)]
    /\ UNCHANGED <<tracker_vars, calculator, cli_vars, calls, viewer_vars>>

\* A call of SpeedCalculator.calculate_from_tracked_car.
CalculateFromTrackedCar(tracked_car) ==
    /\ speed_call = NoCall
    /\ speed_call' =
          [op |-> "calculate_from_tracked_car",
           tracked_car |-> tracked_car,
           result |-> calculate_from_tracked_car(calculator, tracked_car)]
    /\ UNCHANGED <<tracker_vars, calculator, cli_vars, calls, viewer_vars>>

\* A SpeedMeasurement constructed by hand.
Construct(kwargs) ==
    /\ speed_call = NoCall
    /\ speed_call' = [op |-> "SpeedMeasurement", kwargs |-> kwargs,
                      result |-> SpeedMeasurement(kwargs)]
    /\ UNCHANGED <<tracker_vars, calculator, cli_vars, calls, viewer_vars>>

NextSpeed ==
    \/ /\ speed_call = NoCall
       /\ \E left_crossing_frame \in SpeedFrames, right_crossing_frame \in SpeedFrames,
             track_id \in SpeedTrackIds, confidence \in SpeedConfidences :
              Calculate(left_crossing_frame, right_crossing_frame, track_id, confidence)
    \/ /\ speed_call = NoCall
       /\ \E tracked_car \in SpeedCars : CalculateFromTrackedCar(tracked_car)
    \/ /\ speed_call = NoCall
       /\ \E kwargs \in MeasurementKwargs : Construct(kwargs)

SpecSpeed == InitSpeed /\ [][NextSpeed]_vars

\* --------------------------------------------------- process_video (the CLI)
\* The videos: for each frame the detections the vehicle detector finds in
\* it, stamped with the frame's one-based number.
RECURSIVE VideosFrom(_, _)
VideosFrom(frame_number, budget) ==
    IF frame_number > MaxFrame THEN {<<>>}
    ELSE {<<>>} \cup
         UNION {{<<detections>> \o rest :
                    rest \in VideosFrom(frame_number + 1, budget - Len(detections))} :
                detections \in {l \in DetectionLists(frame_number) : Len(l) <= budget}}

\* The configuration of the run: 200 cm between the lines, 30 frames a second.
RunConfiguration == [distance |-> FracOfInt(200), fps |-> FracOfInt(30)]

\* process_video up to its frame loop: the services are built, the video is
\* open, no frame has been read.
InitCli ==
    /\ TrackerInit
    /\ calculator = SpeedCalculator(RunConfiguration)
    /\ speed_call = NoCall
    /\ video \in VideosFrom(1, MaxDetections)
    /\ pc = "frames"
    /\ tracked_cars_with_crossings = <<>>
    /\ speed_measurements = <<>>
    /\ error_message = ""
    /\ calls = <<>>
    /\ NoViewer

\* The frame loop, first half: the next frame is read, detected and tracked.
ReadFrame ==
    /\ pc = "frames"
    /\ queue = <<>>
    /\ clock < Len(video)
    /\ Update(video[clock + 1])
    /\ UNCHANGED <<speed_vars, cli_vars, calls, viewer_vars>>

\* The frame loop, one turn of `for tracked_car in tracked_cars`: the crossing
\* check and the collection of completed cars. An exception leaves the loops
\* for `except Exception`, which returns a result without measurements.
CheckCrossings ==
    /\ pc = "frames"
    /\ queue # <<>>
    /\ DetectCrossings(Head(queue), clock)
    /\ IF returned'.raised
       THEN /\ pc' = "failed"
            /\ error_message' = "Processing failed: TypeError"
            /\ speed_measurements' = <<>>
            /\ UNCHANGED tracked_cars_with_crossings
       ELSE /\ tracked_cars_with_crossings' =
                  IF /\ is_complete(tracked_cars'[Head(queue)])
                     /\ \A j \in DOMAIN tracked_cars_with_crossings :
                           tracked_cars_with_crossings[j] # Head(queue)
                  THEN Append(tracked_cars_with_crossings, Head(queue))
                  ELSE tracked_cars_with_crossings
            /\ UNCHANGED <<pc, error_message, speed_measurements>>
    /\ UNCHANGED <<speed_vars, video, calls, viewer_vars>>

\* `for completed_car in tracked_cars_with_crossings`, from position i on: a
\* car whose speed calculation raises is skipped.
RECURSIVE measure(_, _, _, _, _)
measure(self, cars, completed, i, measurements) ==
    IF i > Len(completed) THEN measurements
    ELSE LET speed_measurement == calculate_from_tracked_car(self, cars[completed[i]])
         IN  IF speed_measurement.raised
             THEN measure(self, cars, completed, i + 1, measurements)
             ELSE measure(self, cars, completed, i + 1,
                          Append(measurements, speed_measurement.value))

\* After the last frame: without a completed car the run raises
\* NoCarDetectedError or CarNotCrossingBothCoordinatesError, otherwise the
\* speeds are calculated and the result returned.
Finish ==
    /\ pc = "frames"
    /\ queue = <<>>
    /\ clock = Len(video)
    /\ IF tracked_cars_with_crossings = <<>>
       THEN /\ pc' = "raised"
            /\ error_message' = IF TotalDetections = 0
                                THEN "NoCarDetectedError"
                                ELSE "CarNotCrossingBothCoordinatesError"
            /\ UNCHANGED speed_measurements
       ELSE /\ pc' = "done"
            /\ speed_measurements' =
                  measure(calculator, tracked_cars, tracked_cars_with_crossings, 1, <<>>)
            /\ UNCHANGED error_message
    /\ UNCHANGED <<tracker_vars, speed_vars, video, tracked_cars_with_crossings, calls, viewer_vars>>

NextCli ==
    \/ ReadFrame
    \/ CheckCrossings
    \/ Finish

SpecCli == InitCli /\ [][NextCli]_vars

\* ------------------------------------------------ process_frame as a whole
\* DetectionController.detect_crossings: `for tracked_car in tracked_cars`
\* from position j of the list on; a call that raises ends the loop.
RECURSIVE controller_detect_crossings(_, _, _, _)
controller_detect_crossings(cars, result, j, frame_number) ==
    IF j > Len(result) THEN cars
    ELSE LET r == detect_crossings(cars[result[j]], frame_number)
             checked == [cars EXCEPT ![result[j]] = r.tracked_car]
         IN  IF r.raised THEN checked
             ELSE controller_detect_crossings(checked, result, j + 1, frame_number)

\* process_frame on a tracker st = (cars, order, next_track_id): the frame's
\* detections are tracked, then every tracked car is checked for crossings.
process_frame(st, detections, frame_number) ==
    LET u == update(st.cars, st.order, st.next_track_id, detections)
    IN  [cars |-> controller_detect_crossings(u.cars, u.result, 1, frame_number),
         order |-> u.order,
         next_track_id |-> u.next_track_id]

\* ------------------------------------------- the controller on a wider road
\* The boxes of a road with two lanes, one below the other, and the boxes of
\* zero or negative width or height a detector may report (BoundingBox
\* validates nothing).
Lanes == {0, 1}

LaneBoxes(lane) == {BoundingBox(0, 2 * lane, x2, 2 * lane + 1) : x2 \in 1..(MaxX - 1)}

DegenerateBoxes ==
    {BoundingBox(1, 0, 1, 1), BoundingBox(2, 0, 1, 1), BoundingBox(0, 1, 2, 1)}

RoadBoxes == UNION {LaneBoxes(lane) : lane \in Lanes} \cup DegenerateBoxes

RoadDetectionsOfFrame(frame_number) ==
    {DetectionResult(frame_number, b, c) : b \in RoadBoxes, c \in Confidences}

RoadDetectionLists(frame_number) ==
    UNION {[1..n -> RoadDetectionsOfFrame(frame_number)] : n \in 0..MaxDets}

NextRoad ==
    \/ /\ queue = <<>>
       /\ clock < MaxRoadFrame
       /\ \E detections \in RoadDetectionLists(clock + 1) : Update(detections)
       /\ UNCHANGED <<speed_vars, cli_vars, calls, viewer_vars>>
    \/ /\ \E track_id \in DOMAIN tracked_cars, frame_number \in 1..MaxFrame :
              DetectCrossings(track_id, frame_number)
       /\ UNCHANGED <<speed_vars, cli_vars, calls, viewer_vars>>

SpecRoad == Init /\ [][NextRoad]_vars

\* ---------------------------------------------------- calculate_iou alone
\* Every box with integer corners on the grid: BoundingBox accepts any four
\* integers, so x2 <= x1 and y2 <= y1 are among them.
AllBoxes ==
    {BoundingBox(x1, y1, x2, y2) :
        x1 \in 0..MaxCoordinate, y1 \in 0..MaxCoordinate,
        x2 \in 0..MaxCoordinate, y2 \in 0..MaxCoordinate}

IouDetections == {DetectionResult(1, b, c) : b \in AllBoxes, c \in Confidences}

\* Nothing but the function: no tracker fed, no calculator, no video.
InitIou ==
    /\ TrackerInit
    /\ calculator = None
    /\ speed_call = NoCall
    /\ video = <<>>
    /\ pc = "calculate_iou"
    /\ tracked_cars_with_crossings = <<>>
    /\ speed_measurements = <<>>
    /\ error_message = ""
    /\ calls = <<>>
    /\ NoViewer

\* A call of calculate_iou.
CalculateIou(box1, box2) ==
    /\ calls = <<>>
    /\ calls' = <<[op |-> "calculate_iou", box1 |-> box1, box2 |-> box2,
                   result |-> calculate_iou(box1, box2)]>>
    /\ UNCHANGED <<tracker_vars, speed_vars, cli_vars, viewer_vars>>

\* A second call, on boxes of the first call: in the other order, or one of
\* them taken twice.
CalculateIouAgain(box1, box2) ==
    /\ Len(calls) = 1
    /\ calls' = Append(calls,
                       [op |-> "calculate_iou", box1 |-> box1, box2 |-> box2,
                        result |-> calculate_iou(box1, box2)])
    /\ UNCHANGED <<tracker_vars, speed_vars, cli_vars, viewer_vars>>

NextIou ==
    \/ /\ calls = <<>>
       /\ \E box1 \in IouDetections, box2 \in IouDetections : CalculateIou(box1, box2)
    \/ /\ Len(calls) = 1
       /\ \E box1 \in {calls[1].box1, calls[1].box2}, box2 \in {calls[1].box1, calls[1].box2} :
              CalculateIouAgain(box1, box2)

SpecIou == InitIou /\ [][NextIou]_vars

\* ---------------------------------------------------- Configuration alone
\* Keyword arguments a caller, or load_from_yaml, may hand to Configuration:
\* integers for the coordinates, numbers for distance and fps (negative,
\* zero, positive, whole or not), an optional integer for downsize_video.
ConfigurationKwargs ==
    [left_coordinate : {-1, 0, 1},
     right_coordinate : {-1, 0, 1, 2},
     distance : {FracOfInt(-10), Zero, Frac(1, 2), FracOfInt(200)},
     fps : {FracOfInt(-10), Zero, Frac(2997, 100), FracOfInt(30)},
     downsize_video : {NoValue, Some(-1), Some(0), Some(640)}]

\* Nothing constructed yet.
InitConfiguration ==
    /\ TrackerInit
    /\ calculator = None
    /\ speed_call = NoCall
    /\ video = <<>>
    /\ pc = "Configuration"
    /\ tracked_cars_with_crossings = <<>>
    /\ speed_measurements = <<>>
    /\ error_message = ""
    /\ calls = <<>>
    /\ NoViewer

\* A Configuration constructed.
ConstructConfiguration(kwargs) ==
    /\ calls = <<>>
    /\ calls' = <<[op |-> "Configuration", kwargs |-> kwargs,
                   result |-> Configuration(kwargs)]>>
    /\ UNCHANGED <<tracker_vars, speed_vars, cli_vars, viewer_vars>>

NextConfiguration ==
    /\ calls = <<>>
    /\ \E kwargs \in ConfigurationKwargs : ConstructConfiguration(kwargs)

SpecConfiguration == InitConfiguration /\ [][NextConfiguration]_vars

\* ------------------------------------------------- VideoProcessor alone
\* cv2.VideoCapture over a file of frame_count frames, positioned at its
\* first frame. A frame is named by its index in the file.
VideoCapture(frame_count) == [frame_count |-> frame_count, pos |-> 0]

\* `self.cap.set(cv2.CAP_PROP_POS_FRAMES, frame_number)`
cap_set(capture, frame_number) == [capture EXCEPT !.pos = frame_number]

\* `ret, frame = self.cap.read()`: the frame at the position, the position
\* moved one on; no frame at the end of the file.
cap_read(capture) ==
    IF capture.pos < capture.frame_count
    THEN [ret |-> TRUE, frame |-> capture.pos,
          cap |-> [capture EXCEPT !.pos = @ + 1]]
    ELSE [ret |-> FALSE, frame |-> None, cap |-> capture]

\* VideoProcessor.get_frame(frame_number): the capture as the call leaves it
\* and the frame returned (None when it cannot be read). Resizing does not
\* change which frame it is.
get_frame(capture, frame_number) ==
    LET r == cap_read(cap_set(capture, frame_number))
    IN  [cap |-> r.cap, result |-> IF r.ret THEN r.frame ELSE None]

\* The generator VideoProcessor.iter_frames() returns, before its first
\* next().
iter_frames == [state |-> "created", frame_number |-> None]

\* next() on that generator: it runs to its next yield (the first time from
\* the top, later from `frame_number += 1`) or to the break that ends it.
iter_frames_next(capture, generator) ==
    LET started == generator.state = "created"
        frame_number == IF started THEN 0 ELSE generator.frame_number + 1
        r == cap_read(IF started THEN cap_set(capture, 0) ELSE capture)
    IN  IF r.ret
        THEN [cap |-> r.cap, yielded |-> TRUE, frame |-> r.frame,
              generator |-> [state |-> "suspended", frame_number |-> frame_number]]
        ELSE [cap |-> r.cap, yielded |-> FALSE, frame |-> None,
              generator |-> [state |-> "exhausted", frame_number |-> frame_number]]

\* VideoProcessor(video_path) on a file of some length and
\* `for frame_number, frame in video_processor.iter_frames()` about to begin.
InitVideoProcessor ==
    /\ TrackerInit
    /\ calculator = None
    /\ speed_call = NoCall
    /\ video = <<>>
    /\ pc = "VideoProcessor"
    /\ tracked_cars_with_crossings = <<>>
    /\ speed_measurements = <<>>
    /\ error_message = ""
    /\ calls = <<>>
    /\ \E frame_count \in 1..MaxVideoFrames : cap = VideoCapture(frame_count)
    /\ iterator = iter_frames
    /\ current_frame_number = None
    /\ frame_cache = <<>>
    /\ controls = None
    /\ detection_worker = None
    /\ workers = <<>>
    /\ posted = <<>>
    /\ handler = None

\* The for loop asks the generator for its next frame.
IterFramesNext ==
    /\ iterator.state # "exhausted"
    /\ \E n \in {iter_frames_next(cap, iterator)} :
           /\ cap' = n.cap
           /\ iterator' = n.generator
           /\ calls' = IF n.yielded
                       THEN Append(calls, [op |-> "iter_frames",
                                           frame_number |-> n.generator.frame_number,
                                           frame |-> n.frame])
                       ELSE calls
    /\ UNCHANGED <<tracker_vars, speed_vars, cli_vars, current_frame_number, frame_cache,
                   window_vars>>

\* The body of the loop fetches a frame by its number, as detect_crossings
\* does for a debug image.
GetFrame(frame_number) ==
    /\ iterator.state = "suspended"
    /\ Cardinality({i \in DOMAIN calls : calls[i].op = "get_frame"}) < MaxFetches
    /\ \E g \in {get_frame(cap, frame_number)} :
           /\ cap' = g.cap
           /\ calls' = Append(calls, [op |-> "get_frame",
                                      frame_number |-> frame_number,
                                      frame |-> g.result])
    /\ UNCHANGED <<tracker_vars, speed_vars, cli_vars, iterator, current_frame_number,
                   frame_cache, window_vars>>

NextVideoProcessor ==
    \/ IterFramesNext
    \/ \E frame_number \in 0..(cap.frame_count - 1) : GetFrame(frame_number)

SpecVideoProcessor == InitVideoProcessor /\ [][NextVideoProcessor]_vars

\* ------------------------------------------- coordinates of a resized video
\* `self._scale_factor = target_width / original_width`, as the fraction the
\* double stands for.
scale_factor(target_width, original_width) == Frac(target_width, original_width)

RECURSIVE IsPowerOfTwo(_)
IsPowerOfTwo(n) == n = 1 \/ (n % 2 = 0 /\ IsPowerOfTwo(n \div 2))

\* Variant: the product rounded to the nearest integer.
scaled_coordinate_rounded(coordinate, factor) ==
    {(2 * coordinate * factor.num + factor.den) \div (2 * factor.den)}

\* `int(coordinate * self._scale_factor)` for a coordinate >= 0: the product
\* truncated. The factor is a double: unless it is exact in binary (its
\* denominator a power of two), a product that is a whole number k >= 1 may
\* come out just below k, as 11 * (15 / 11) does, and int() then gives k - 1.
\* Which of the two a given pair gives depends on how the quotient was
\* rounded; both are kept.
scaled_coordinate(coordinate, factor) ==
    LET product == FracMul(FracOfInt(coordinate), factor)
        k == product.num \div product.den
    IN  IF product.den = 1 /\ k >= 1 /\ ~IsPowerOfTwo(factor.den)
        THEN {k - 1, k}
        ELSE {k}

\* VideoProcessor.get_scaled_coordinates() on a video original_width pixels
\* wide: the values self._scaled_coordinates may have after get_metadata().
get_scaled_coordinates(config, original_width) ==
    IF config.downsize_video = NoValue
    THEN {NoValue}
    ELSE LET target_width == config.downsize_video[1]
             factor == scale_factor(target_width, original_width)
         IN  IF original_width # target_width
             THEN {Some(<<scaled_left, scaled_right>>) :
                       scaled_left \in scaled_coordinate(config.left_coordinate, factor),
                       scaled_right \in scaled_coordinate(config.right_coordinate, factor)}
             ELSE {Some(<<config.left_coordinate, config.right_coordinate>>)}

\* process_video: the configuration the crossing detector is built from, or
\* the exception that constructing it raised.
crossing_detector_config(config, scaled_coords) ==
    IF scaled_coords # NoValue
    THEN Configuration([config EXCEPT !.left_coordinate = scaled_coords[1][1],
                                      !.right_coordinate = scaled_coords[1][2]])
    ELSE Return(config)

\* Configurations that were constructed: the coordinates anywhere on or next
\* to the picture, with or without a width to resize to.
DownsizeConfigurations ==
    {kwargs \in [left_coordinate : 0..MaxWidth,
                 right_coordinate : 0..MaxWidth,
                 distance : {FracOfInt(200)},
                 fps : {FracOfInt(30)},
                 downsize_video : {NoValue} \cup {Some(w) : w \in 1..MaxWidth}] :
        ~Configuration(kwargs).raised}

\* process_video entered, no video opened yet.
InitDownsize ==
    /\ TrackerInit
    /\ calculator = None
    /\ speed_call = NoCall
    /\ video = <<>>
    /\ pc = "get_scaled_coordinates"
    /\ tracked_cars_with_crossings = <<>>
    /\ speed_measurements = <<>>
    /\ error_message = ""
    /\ calls = <<>>
    /\ NoViewer

\* VideoProcessor(video_path, config=config), get_metadata() and
\* get_scaled_coordinates() on a video original_width pixels wide.
GetScaledCoordinates(config, original_width) ==
    /\ calls = <<>>
    /\ \E scaled_coords \in get_scaled_coordinates(config, original_width) :
           calls' = <<[op |-> "get_scaled_coordinates", config |-> config,
                       original_width |-> original_width,
                       result |-> scaled_coords]>>
    /\ UNCHANGED <<tracker_vars, speed_vars, cli_vars, viewer_vars>>

\* process_video builds the crossing detector, from a scaled configuration
\* when there are scaled coordinates.
BuildCrossingDetector ==
    /\ Len(calls) = 1
    /\ calls' = Append(calls,
                       [op |-> "CoordinateCrossingDetector",
                        result |-> crossing_detector_config(calls[1].config,
                                                            calls[1].result)])
    /\ UNCHANGED <<tracker_vars, speed_vars, cli_vars, viewer_vars>>

NextDownsize ==
    \/ /\ calls = <<>>
       /\ \E config \in DownsizeConfigurations, original_width \in 1..MaxWidth :
              GetScaledCoordinates(config, original_width)
    \/ BuildCrossingDetector

SpecDownsize == InitDownsize /\ [][NextDownsize]_vars

\* ------------------------------------------------ VideoController alone
\* `self.frame_cache_size: int = 10`
frame_cache_size == 10

Range(seq) == {seq[i] : i \in DOMAIN seq}

Min(S) == CHOOSE x \in S : \A y \in S : x <= y

\* `del self.frame_cache[key]`
dict_del(keys, key) == SelectSeq(keys, LAMBDA k : k # key)

\* VideoController._add_to_cache(frame_number, pixmap): the keys of the
\* cache, in insertion order, as the call leaves them. Assigning to a key the
\* dict holds keeps its place.
add_to_cache(keys, frame_number) ==
    LET added == IF frame_number \in Range(keys) THEN keys
                 ELSE Append(keys, frame_number)
    IN  IF Len(added) > frame_cache_size
        THEN dict_del(added, Min(Range(added)))
        ELSE added

\* VideoController.get_frame(frame_number) with a video loaded: the capture
\* and the cache as the call leaves them, and whether a pixmap is returned.
VideoController_get_frame(capture, keys, frame_number) ==
    IF frame_number \in Range(keys)
    THEN [cap |-> capture, frame_cache |-> keys, result |-> frame_number]
    ELSE LET g == get_frame(capture, frame_number - 1)
         IN  IF g.result = None
             THEN [cap |-> g.cap, frame_cache |-> keys, result |-> None]
             ELSE [cap |-> g.cap, frame_cache |-> add_to_cache(keys, frame_number),
                   result |-> frame_number]

\* load_video() on a file long enough to fill the cache, then the first
\* frame shown: `self.video_controller.get_frame(1)`.
InitVideoController ==
    /\ TrackerInit
    /\ calculator = None
    /\ speed_call = NoCall
    /\ video = <<>>
    /\ pc = "VideoController"
    /\ tracked_cars_with_crossings = <<>>
    /\ speed_measurements = <<>>
    /\ error_message = ""
    /\ calls = <<>>
    /\ iterator = None
    /\ controls = None
    /\ detection_worker = None
    /\ workers = <<>>
    /\ posted = <<>>
    /\ handler = None
    /\ current_frame_number = 1
    /\ \E frame_count \in (frame_cache_size + 1)..MaxNavigatedFrames :
           \E g \in {VideoController_get_frame(VideoCapture(frame_count), <<>>, 1)} :
               /\ cap = g.cap
               /\ frame_cache = g.frame_cache

\* VideoController.next_frame()
NextFrame ==
    /\ current_frame_number < cap.frame_count
    /\ current_frame_number' = current_frame_number + 1
    /\ \E g \in {VideoController_get_frame(cap, frame_cache, current_frame_number + 1)} :
           /\ cap' = g.cap
           /\ frame_cache' = g.frame_cache
    /\ UNCHANGED <<tracker_vars, speed_vars, cli_vars, calls, iterator, window_vars>>

\* VideoController.previous_frame()
PreviousFrame ==
    /\ current_frame_number > 1
    /\ current_frame_number' = current_frame_number - 1
    /\ \E g \in {VideoController_get_frame(cap, frame_cache, current_frame_number - 1)} :
           /\ cap' = g.cap
           /\ frame_cache' = g.frame_cache
    /\ UNCHANGED <<tracker_vars, speed_vars, cli_vars, calls, iterator, window_vars>>

\* VideoController.navigate_to_frame(frame_number), the number within the
\* video (any other is refused and changes nothing).
NavigateToFrame(frame_number) ==
    /\ frame_number >= 1
    /\ frame_number <= cap.frame_count
    /\ current_frame_number' = frame_number
    /\ \E g \in {VideoController_get_frame(cap, frame_cache, frame_number)} :
           /\ cap' = g.cap
           /\ frame_cache' = g.frame_cache
    /\ UNCHANGED <<tracker_vars, speed_vars, cli_vars, calls, iterator, window_vars>>

NextVideoController ==
    \/ NextFrame
    \/ PreviousFrame
    \/ \E frame_number \in {1, cap.frame_count} : NavigateToFrame(frame_number)

SpecVideoController == InitVideoController /\ [][NextVideoController]_vars

\* ---------------------------------------------------------- the main window
\* The three navigation controls, all enabled or all disabled:
\* prev_button.setEnabled(e), next_button.setEnabled(e), frame_input.setEnabled(e).
set_enabled(enabled) ==
    [prev_button |-> enabled, next_button |-> enabled, frame_input |-> enabled]

\* NavigationControlsWidget.set_frame_info: the two buttons follow the
\* position, the input field is left as it is.
set_frame_info(ctl, current_frame, total_frames) ==
    [ctl EXCEPT !.prev_button = current_frame > 1,
                !.next_button = current_frame < total_frames]

\* DetectionWorker(detection_controller, frame, frame_number), not started:
\* pc is where its run() is, result the list update_tracking returned to it.
DetectionWorker(frame_number) ==
    [frame_number |-> frame_number, pc |-> "started",
     interruption_requested |-> FALSE, result |-> <<>>, terminated_at |-> ""]

\* QThread.isRunning(): started, and run() neither returned nor was killed.
isRunning(worker) ==
    worker.pc \in {"started", "process_frame", "updated", "processed"}

\* The window's thread, between two events.
Idle == [pc |-> "idle", frame_number |-> None]

\* A video as the car detector sees it: a car whose right edge moves one
\* column a frame, or an empty road. The window numbers frames from 1 and
\* hands the detector frame_number - 1.
CarVideo(frame_count) ==
    [f \in 1..frame_count |->
        <<DetectionResult(f - 1, BoundingBox(0, 0, f, 1), 90)>>]

EmptyVideo(frame_count) == [f \in 1..frame_count |-> <<>>]

\* _on_open_json_file has loaded the configuration and the video, shown
\* frame 1 and called _run_detection_on_frame(1): the first worker is
\* started, the input field and the Next button are enabled.
InitWindow ==
    /\ TrackerInit
    /\ calculator = None
    /\ speed_call = NoCall
    /\ \E frame_count \in 2..MaxWindowFrames :
           /\ video \in {CarVideo(frame_count), EmptyVideo(frame_count)}
           /\ cap = get_frame(VideoCapture(frame_count), 0).cap
           /\ controls = set_frame_info(set_enabled(TRUE), 1, frame_count)
    /\ pc = "window"
    /\ tracked_cars_with_crossings = <<>>
    /\ speed_measurements = <<>>
    /\ error_message = ""
    /\ calls = <<>>
    /\ iterator = None
    /\ current_frame_number = 1
    /\ frame_cache = <<1>>
    /\ workers = <<DetectionWorker(0)>>
    /\ detection_worker = 1
    /\ posted = <<>>
    /\ handler = Idle

\* _run_detection_on_frame from `frame_index = frame_number - 1` on: the frame
\* is read and a worker created and started for it. ws and dw are workers and
\* self._detection_worker as the first half of the method left them.
StartWorker(frame_number, capture, ws, dw) ==
    /\ \E g \in {get_frame(capture, frame_number - 1)} :
           /\ cap' = g.cap
           /\ IF g.result = None
              THEN /\ workers' = ws
                   /\ detection_worker' = dw
              ELSE /\ workers' = Append(ws, DetectionWorker(frame_number - 1))
                   /\ detection_worker' = Len(ws) + 1
    /\ handler' = Idle

\* _run_detection_on_frame(frame_number), called by a handler that left the
\* capture as given: a worker that is running is asked to stop and waited
\* for, otherwise the new worker is started at once.
RunDetectionOnFrame(frame_number, capture) ==
    IF detection_worker # None /\ isRunning(workers[detection_worker])
    THEN /\ workers' = [workers EXCEPT ![detection_worker].interruption_requested = TRUE]
         /\ handler' = [pc |-> "wait", frame_number |-> frame_number]
         /\ cap' = capture
         /\ UNCHANGED detection_worker
    ELSE StartWorker(frame_number, capture, workers, detection_worker)

\* `self._detection_worker.wait(1000)` returns: the worker has finished, or
\* the second has passed and the worker is terminated and waited for; then
\* the rest of _run_detection_on_frame.
WaitReturns ==
    /\ handler.pc = "wait"
    /\ StartWorker(handler.frame_number, cap,
                   IF isRunning(workers[detection_worker])
                   THEN [workers EXCEPT ![detection_worker].pc = "terminated",
                                        ![detection_worker].terminated_at =
                                            workers[detection_worker].pc]
                   ELSE workers,
                   None)
    /\ UNCHANGED <<tracker_vars, speed_vars, cli_vars, calls, iterator,
                   current_frame_number, frame_cache, controls, posted>>

\* _on_next_frame: the Next button clicked.
OnNextFrame ==
    /\ handler.pc = "idle"
    /\ controls.next_button
    /\ Len(workers) < MaxWorkers
    /\ current_frame_number < cap.frame_count
    /\ \E g \in {VideoController_get_frame(cap, frame_cache, current_frame_number + 1)} :
           /\ current_frame_number' = current_frame_number + 1
           /\ frame_cache' = g.frame_cache
           /\ controls' = set_enabled(FALSE)
           /\ RunDetectionOnFrame(current_frame_number + 1, g.cap)
    /\ UNCHANGED <<tracker_vars, speed_vars, cli_vars, calls, iterator, posted>>

\* _on_previous_frame: the Previous button clicked.
OnPreviousFrame ==
    /\ handler.pc = "idle"
    /\ controls.prev_button
    /\ Len(workers) < MaxWorkers
    /\ current_frame_number > 1
    /\ \E g \in {VideoController_get_frame(cap, frame_cache, current_frame_number - 1)} :
           /\ current_frame_number' = current_frame_number - 1
           /\ frame_cache' = g.frame_cache
           /\ controls' = set_frame_info(controls, current_frame_number - 1, cap.frame_count)
           /\ RunDetectionOnFrame(current_frame_number - 1, g.cap)
    /\ UNCHANGED <<tracker_vars, speed_vars, cli_vars, calls, iterator, posted>>

\* _on_frame_number_changed(frame_number): a number within the video entered
\* in the input field.
OnFrameNumberChanged(frame_number) ==
    /\ handler.pc = "idle"
    /\ controls.frame_input
    /\ Len(workers) < MaxWorkers
    /\ \E g \in {VideoController_get_frame(cap, frame_cache, frame_number)} :
           /\ current_frame_number' = frame_number
           /\ frame_cache' = g.frame_cache
           /\ controls' = set_frame_info(controls, frame_number, cap.frame_count)
           /\ RunDetectionOnFrame(frame_number, g.cap)
    /\ UNCHANGED <<tracker_vars, speed_vars, cli_vars, calls, iterator, posted>>

\* The window's event loop delivers the oldest queued signal:
\* _on_detection_complete or _on_detection_error.
DeliverSignal ==
    /\ handler.pc = "idle"
    /\ posted # <<>>
    /\ posted' = Tail(posted)
    /\ controls' = IF Head(posted).signal = "detection_complete"
                   THEN set_enabled(TRUE)
                   ELSE controls
    /\ detection_worker' = None
    /\ UNCHANGED <<tracker_vars, speed_vars, cli_vars, calls, cap, iterator,
                   current_frame_number, frame_cache, workers, handler>>

\* DetectionWorker.run, first lines: the first interruption check.
WorkerRun(w) ==
    /\ workers[w].pc = "started"
    /\ workers' = [workers EXCEPT ![w].pc =
                      IF workers[w].interruption_requested
                      THEN "finished" ELSE "process_frame"]
    /\ UNCHANGED <<tracker_vars, speed_vars, cli_vars, calls, cap, iterator,
                   current_frame_number, frame_cache, controls, detection_worker,
                   posted, handler>>

\* process_frame, first half, in the worker's thread: detect_cars and
\* update_tracking on the controller's tracker.
WorkerUpdate(w) ==
    /\ workers[w].pc = "process_frame"
    /\ \E u \in {update(tracked_cars, dict_order, next_track_id,
                        video[workers[w].frame_number + 1])} :
           /\ tracked_cars' = u.cars
           /\ dict_order' = u.order
           /\ next_track_id' = u.next_track_id
           /\ created' = created + u.new_tracks
           /\ workers' = [workers EXCEPT ![w].pc = "updated", ![w].result = u.result]
    /\ UNCHANGED <<clock, queue, returned, before, emitted, audit, speed_vars,
                   cli_vars, calls, cap, iterator, current_frame_number,
                   frame_cache, controls, detection_worker, posted, handler>>

\* process_frame, second half: detect_crossings over the tracked cars. An
\* exception leaves process_frame and run() emits detection_error.
WorkerDetectCrossings(w) ==
    /\ workers[w].pc = "updated"
    /\ tracked_cars' = controller_detect_crossings(tracked_cars, workers[w].result, 1,
                                                   workers[w].frame_number)
    /\ IF \E j \in DOMAIN workers[w].result :
              detect_crossings(tracked_cars[workers[w].result[j]],
                               workers[w].frame_number).raised
       THEN /\ workers' = [workers EXCEPT ![w].pc = "finished"]
            /\ posted' = Append(posted, [signal |-> "detection_error", worker |-> w])
       ELSE /\ workers' = [workers EXCEPT ![w].pc = "processed"]
            /\ posted' = posted
    /\ UNCHANGED <<dict_order, next_track_id, clock, queue, created, returned,
                   before, emitted, audit, speed_vars, cli_vars, calls, cap,
                   iterator, current_frame_number, frame_cache, controls,
                   detection_worker, handler>>

\* DetectionWorker.run, last lines: the second interruption check, then
\* detection_complete is emitted.
WorkerEmit(w) ==
    /\ workers[w].pc = "processed"
    /\ workers' = [workers EXCEPT ![w].pc = "finished"]
    /\ posted' = IF workers[w].interruption_requested
                 THEN posted
                 ELSE Append(posted, [signal |-> "detection_complete", worker |-> w])
    /\ UNCHANGED <<tracker_vars, speed_vars, cli_vars, calls, cap, iterator,
                   current_frame_number, frame_cache, controls, detection_worker,
                   handler>>

NextWindow ==
    \/ OnNextFrame
    \/ OnPreviousFrame
    \/ \E frame_number \in 1..cap.frame_count : OnFrameNumberChanged(frame_number)
    \/ WaitReturns
    \/ DeliverSignal
    \/ \E w \in DOMAIN workers : WorkerRun(w)
    \/ \E w \in DOMAIN workers : WorkerUpdate(w)
    \/ \E w \in DOMAIN workers : WorkerDetectCrossings(w)
    \/ \E w \in DOMAIN workers : WorkerEmit(w)

SpecWindow == InitWindow /\ [][NextWindow]_vars

\* ------------------------------------------------------- reading the state
Tracks == DOMAIN tracked_cars

\* x2 of the i-th detection of a car's history.
X2(tracked_car, i) == tracked_car.detections[i].bounding_box.x2

\* The history crosses `coordinate` between its detections i-1 and i.
CrossesAt(tracked_car, i, coordinate) ==
    /\ i >= 2
    /\ i <= Len(tracked_car.detections)
    /\ X2(tracked_car, i - 1) < coordinate
    /\ coordinate <= X2(tracked_car, i)

\* The last call was detect_crossings / update.
DetectStep == returned.op = "detect_crossings"

UpdateStep == returned.op = "update"

\* The car detect_crossings was last called on, as the call found it and as
\* the call left it.
CarBefore == before[returned.track_id]

CarAfter == tracked_cars[returned.track_id]

\* ---------------------------------------------------------------------- C1
\* C1: over an identity's whole lifetime detect_crossings returns at most one
\* 'left' and at most one 'right' event, and a call made when both crossing
\* frames are already set returns an empty list.
C1_AtMostOneEventPerSide ==
    /\ \A t \in DOMAIN emitted :
          /\ CountType(emitted[t], "left") <= 1
          /\ CountType(emitted[t], "right") <= 1
    /\ (DetectStep /\ is_complete(CarBefore))
          => (~returned.raised /\ returned.events = <<>>)

\* A call on an identity that was already complete has returned an empty list.
C1_Witness ==
    /\ DetectStep
    /\ is_complete(CarBefore)
    /\ ~returned.raised
    /\ returned.events = <<>>

C3_RightSetIffTransitionAfterLeft ==
    DetectStep =>
        LET \* the call left the method inside the left-side block
            ended_on_left ==
                /\ returned.raised
                /\ CarAfter.left_crossing_frame # CarBefore.left_crossing_frame
            crosses == CrossesAt(CarBefore, Len(CarBefore.detections), right_coordinate)
            fires == /\ CarBefore.right_crossing_frame = None
                     /\ ~ended_on_left
                     /\ CarAfter.left_crossing_frame # None
                     /\ crosses
        IN  /\ CarAfter.right_crossing_frame =
                  IF fires THEN returned.frame_number ELSE CarBefore.right_crossing_frame
            /\ (crosses /\ CarAfter.left_crossing_frame = None)
                  => /\ CarAfter.right_crossing_frame = None
                     /\ ~returned.raised
                     /\ returned.events = <<>>

\* The call just made set right_crossing_frame, the left one being set before.
C3_Witness ==
    /\ DetectStep
    /\ CarBefore.right_crossing_frame = None
    /\ CarBefore.left_crossing_frame # None
    /\ CarAfter.right_crossing_frame = returned.frame_number
    /\ CrossesAt(CarAfter, Len(CarAfter.detections), right_coordinate)

\* ---------------------------------------------------------------------- C4
\* C4: with frames fed in strictly increasing frame_number order, every
\* identity with both crossing frames set has right_crossing_frame >
\* left_crossing_frame.
C4_RightAfterLeft ==
    \A t \in Tracks :
        is_complete(tracked_cars[t]) =>
            tracked_cars[t].right_crossing_frame > tracked_cars[t].left_crossing_frame

\* An identity is complete whose x2 went from below the left line to the right
\* line or beyond between two consecutive detections.
C4_Witness ==
    \E t \in Tracks :
        /\ is_complete(tracked_cars[t])
        /\ \E i \in 2..Len(tracked_cars[t].detections) :
              /\ CrossesAt(tracked_cars[t], i, left_coordinate)
              /\ CrossesAt(tracked_cars[t], i, right_coordinate)

\* ---------------------------------------------------------------------- C5
\* C5: once an identity's left_crossing_frame (or right_crossing_frame) is set
\* no later update or detect_crossings call changes it, and
\* right_crossing_frame is never set while left_crossing_frame is None.
C5_CrossingMonotonicity ==
    /\ \A t \in DOMAIN before :
          /\ before[t].left_crossing_frame # None
                => tracked_cars[t].left_crossing_frame = before[t].left_crossing_frame
          /\ before[t].right_crossing_frame # None
                => tracked_cars[t].right_crossing_frame = before[t].right_crossing_frame
    /\ \A t \in Tracks :
          tracked_cars[t].right_crossing_frame # None
                => tracked_cars[t].left_crossing_frame # None

\* detect_crossings was just called on an identity whose left crossing was
\* recorded earlier and whose history crosses the left line once more at its
\* latest detection.
C5_Witness ==
    /\ DetectStep
    /\ CarBefore.left_crossing_frame # None
    /\ audit[returned.track_id].left_index < Len(CarBefore.detections)
    /\ CrossesAt(CarBefore, Len(CarBefore.detections), left_coordinate)

\* ---------------------------------------------------------------------- C6
\* C6: an identity with exactly one detection has no crossing recorded, and a
\* detect_crossings call on it returns no event, whatever the x2 of that
\* detection.
C6_SingleDetectionNeverCrosses ==
    /\ \A t \in Tracks :
          Len(tracked_cars[t].detections) = 1
              => /\ tracked_cars[t].left_crossing_frame = None
                 /\ tracked_cars[t].right_crossing_frame = None
    /\ (DetectStep /\ Len(CarBefore.detections) = 1)
          => (~returned.raised /\ returned.events = <<>>)

\* detect_crossings was called on an identity whose only detection is already
\* at or beyond the right line.
C6_Witness ==
    /\ DetectStep
    /\ Len(CarBefore.detections) = 1
    /\ X2(CarBefore, 1) >= right_coordinate

\* ---------------------------------------------------------------------- C7
\* The indices at which a history crosses the left line, and the earliest.
LeftCrossings(tracked_car) ==
    {i \in 2..Len(tracked_car.detections) : CrossesAt(tracked_car, i, left_coordinate)}

Earliest(S) == CHOOSE i \in S : \A j \in S : i <= j

\* C7: when detect_crossings is called after every detection appended to an
\* identity, left_crossing_frame is the frame number of the call made at the
\* earliest history index i with x2[i-1] < left_coordinate <= x2[i] (None if
\* there is none), and no left event is returned by any other call.
C7_TransitionPrecision ==
    \A t \in Tracks :
        (audit[t].every_append /\ ~audit[t].uncalled) =>
            LET car == tracked_cars[t]
                S == LeftCrossings(car)
            IN  IF S = {}
                THEN /\ car.left_crossing_frame = None
                     /\ CountType(emitted[t], "left") = 0
                ELSE /\ car.left_crossing_frame = audit[t].first_call[Earliest(S)]
                     /\ audit[t].left_index = Earliest(S)
                     /\ \A j \in 1..Len(emitted[t]) :
                           emitted[t][j].coordinate_type = "left"
                               => emitted[t][j].frame_number = car.left_crossing_frame

\* A history like [90, 95, 105]: called after every append, the first left
\* crossing is at the third detection and left_crossing_frame is that call's.
C7_Witness ==
    \E t \in Tracks :
        /\ audit[t].every_append
        /\ ~audit[t].uncalled
        /\ Len(tracked_cars[t].detections) >= 3
        /\ LeftCrossings(tracked_cars[t]) # {}
        /\ Earliest(LeftCrossings(tracked_cars[t])) = 3
        /\ tracked_cars[t].left_crossing_frame = audit[t].first_call[3]

\* ---------------------------------------------------------------------- C8
\* Number of detections the last call appended to the identity under key k.
Appended(k) ==
    IF k \in DOMAIN before
    THEN Len(tracked_cars[k].detections) - Len(before[k].detections)
    ELSE Len(tracked_cars[k].detections)

\* The identities the last call appended detection d to.
Receivers(d) ==
    {k \in Tracks : Appended(k) = 1 /\ Last(tracked_cars[k].detections) = d}

\* C8: within one update call every identity has at most one detection
\* appended (an identity created in the call holds exactly the detection that
\* created it) and every input detection is appended to exactly one identity.
C8_OneDetectionPerIdentity ==
    UpdateStep =>
        LET dets == returned.detections
        IN  /\ \A k \in Tracks :
                  /\ Appended(k) \in {0, 1}
                  /\ k \in DOMAIN before
                        => IsPrefix(before[k].detections, tracked_cars[k].detections)
                  /\ k \notin DOMAIN before => Appended(k) = 1
                  /\ Appended(k) = 1
                        => \E i \in 1..Len(dets) : dets[i] = Last(tracked_cars[k].detections)
            /\ \A i \in 1..Len(dets) :
                  Cardinality(Receivers(dets[i])) =
                      Cardinality({j \in 1..Len(dets) : dets[j] = dets[i]})

\* update was called with two detections overlapping one identity, the second
\* more than the first: the first was appended to it and the second became a
\* new identity.
C8_Witness ==
    /\ UpdateStep
    /\ Len(returned.detections) = 2
    /\ \E t \in DOMAIN before, n \in Tracks \ DOMAIN before :
          /\ Last(tracked_cars[t].detections) = returned.detections[1]
          /\ Appended(t) = 1
          /\ tracked_cars[n].detections = <<returned.detections[2]>>
          /\ FracGeq(calculate_iou(returned.detections[1], Last(before[t].detections)),
                     iou_threshold)
          /\ FracGreater(
                 calculate_iou(returned.detections[2], Last(before[t].detections)),
                 calculate_iou(returned.detections[1], Last(before[t].detections)))

\* ---------------------------------------------------------------------- C9
\* IoU of a detection with the most recent detection an identity had when the
\* last call began.
IouBefore(d, k) == calculate_iou(d, Last(before[k].detections))

\* The ways to say which identity received which input detection of the last
\* update call, consistent with what was appended.
Assignments ==
    {g \in [1..Len(returned.detections) -> Tracks] :
        /\ \A i, j \in DOMAIN g : g[i] = g[j] => i = j
        /\ \A i \in DOMAIN g :
              /\ Appended(g[i]) = 1
              /\ Last(tracked_cars[g[i]].detections) = returned.detections[i]}

\* C9: update appends a detection to an existing identity T only if its IoU
\* with T's most recent detection is >= iou_threshold and no identity still
\* unmatched in this call has a strictly higher IoU with it; a detection for
\* which no unmatched identity reaches the threshold creates a new identity.
C9_BestMatchAboveThreshold ==
    UpdateStep =>
        \E g \in Assignments :
            \A i \in DOMAIN g :
                LET d == returned.detections[i]
                    unmatched == DOMAIN before \ {g[j] : j \in 1..(i - 1)}
                IN  IF g[i] \in DOMAIN before
                    THEN /\ FracGeq(IouBefore(d, g[i]), iou_threshold)
                         /\ \A k \in unmatched :
                               ~FracGreater(IouBefore(d, k), IouBefore(d, g[i]))
                    ELSE \A k \in unmatched : FracLess(IouBefore(d, k), iou_threshold)

\* Two identities both overlapped the single detection of the call by the
\* threshold or more; the one registered later overlapped it more and got it.
C9_Witness ==
    /\ UpdateStep
    /\ Len(returned.detections) = 1
    /\ \E t1, t2 \in DOMAIN before :
          /\ t1 < t2
          /\ Appended(t2) = 1
          /\ Appended(t1) = 0
          /\ FracGeq(IouBefore(returned.detections[1], t1), iou_threshold)
          /\ FracGreater(IouBefore(returned.detections[1], t2),
                         IouBefore(returned.detections[1], t1))

\* --------------------------------------------------------------------- C10
\* C10: after update calls that created n identities the registry keys are
\* exactly 1..n, each key is the track_id of the identity stored under it, and
\* next_track_id = n + 1, so that every new identity gets an id one greater
\* than the largest issued before and no id is used twice.
C10_SequentialTrackIds ==
    /\ DOMAIN tracked_cars = 1..created
    /\ \A k \in Tracks : tracked_cars[k].track_id = k
    /\ next_track_id = created + 1
    /\ dict_order = [k \in 1..created |-> k]

\* Identities were created by more than one update call, two of them by the
\* same call.
C10_Witness ==
    /\ created >= 3
    /\ \E k \in Tracks : tracked_cars[k].first_detection_frame = 1
    /\ \E k, l \in Tracks :
          /\ k # l
          /\ tracked_cars[k].first_detection_frame > 1
          /\ tracked_cars[l].first_detection_frame = tracked_cars[k].first_detection_frame

\* --------------------------------------------------------------------- C11
\* The identities the last update call returned, as a set.
ReturnedTracks == {returned.tracked_cars[j] : j \in DOMAIN returned.tracked_cars}

TrackedInPreviousFrame ==
    \E k \in DOMAIN before :
        /\ before[k].detections # <<>>
        /\ before[k].last_detection_frame = returned.frame_number - 1

DetectionsFedAt(f) ==
    {d \in UNION {{tracked_cars[k].detections[i] : i \in DOMAIN tracked_cars[k].detections}
                     : k \in Tracks} : d.frame_number = f}

\* Every update call so far was given a single detection, and each one's box
\* has IoU >= iou_threshold with the box fed in the call before.
StableFeed ==
    /\ clock >= 1
    /\ \A f \in 1..clock : Cardinality(DetectionsFedAt(f)) = 1
    /\ TotalDetections = clock
    /\ \A f \in 1..(clock - 1) :
          \A d \in DetectionsFedAt(f), e \in DetectionsFedAt(f + 1) :
              FracGeq(calculate_iou(e, d), iou_threshold)

\* C14: fed on consecutive update calls a single detection whose box has
\* IoU >= iou_threshold with the box of the previous call, the tracker keeps
\* one identity, track_id 1, which holds every detection in feeding order.
C14_IdentityStability ==
    StableFeed =>
        /\ DOMAIN tracked_cars = {1}
        /\ tracked_cars[1].track_id = 1
        /\ Len(tracked_cars[1].detections) = clock
        /\ \A f \in 1..clock : tracked_cars[1].detections[f] \in DetectionsFedAt(f)
        /\ UpdateStep => returned.tracked_cars = <<1>>

\* Three calls, each box overlapping the previous one by the threshold or
\* more while the third overlaps the first by less; the second repeats the
\* first.
C14_Witness ==
    /\ StableFeed
    /\ clock = 4
    /\ UpdateStep
    /\ tracked_cars[1].detections[1].bounding_box = tracked_cars[1].detections[2].bounding_box
    /\ FracLess(calculate_iou(tracked_cars[1].detections[4], tracked_cars[1].detections[1]),
                iou_threshold)

\* --------------------------------------------------------------------- C15
\* Two quotients denote the same number.
FracEq(p, q) == p.num * q.den = q.num * p.den

\* C15: calculate raises, returning no measurement, whenever
\* right_crossing_frame - left_crossing_frame <= 0.
C15_InvalidOrderRejected ==
    (speed_call.op = "calculate"
        /\ speed_call.right_crossing_frame - speed_call.left_crossing_frame <= 0)
        => speed_call.result.raised

\* calculate(left 30, right 0) has raised.
C15_Witness ==
    /\ speed_call.op = "calculate"
    /\ speed_call.left_crossing_frame = 30
    /\ speed_call.right_crossing_frame = 0
    /\ speed_call.result.raised

\* --------------------------------------------------------------------- C16
\* C16: for right - left > 0 calculate returns frame_count = right - left,
\* time_seconds = frame_count / fps, distance_meters = distance / 100,
\* speed_ms = distance_meters / time_seconds, speed_kmh = 3.6 * speed_ms;
\* 200 cm, 30 fps, left 0, right 30 give 1 s, 2 m/s, 7.2 km/h.
C16_SpeedFormula ==
    (speed_call.op = "calculate"
        /\ speed_call.right_crossing_frame - speed_call.left_crossing_frame > 0)
        => /\ ~speed_call.result.raised
           /\ LET m == speed_call.result.value
                  config == calculator.config
              IN  /\ m.frame_count =
                        speed_call.right_crossing_frame - speed_call.left_crossing_frame
                  /\ FracEq(FracMul(m.time_seconds, config.fps), FracOfInt(m.frame_count))
                  /\ FracEq(FracMul(m.distance_meters, FracOfInt(100)), config.distance)
                  /\ FracEq(FracMul(m.speed_ms, m.time_seconds), m.distance_meters)
                  /\ FracEq(FracMul(m.speed_kmh, FracOfInt(10)),
                            FracMul(m.speed_ms, FracOfInt(36)))
                  /\ (/\ config.distance = FracOfInt(200)
                      /\ config.fps = FracOfInt(30)
                      /\ speed_call.left_crossing_frame = 0
                      /\ speed_call.right_crossing_frame = 30)
                        => /\ m.time_seconds = FracOfInt(1)
                           /\ m.speed_ms = FracOfInt(2)
                           /\ m.speed_kmh = [num |-> 36, den |-> 5]

\* The example: 200 cm, 30 fps, left 0, right 30, measured at 36/5 km/h.
C16_Witness ==
    /\ speed_call.op = "calculate"
    /\ calculator.config = [distance |-> FracOfInt(200), fps |-> FracOfInt(30)]
    /\ speed_call.left_crossing_frame = 0
    /\ speed_call.right_crossing_frame = 30
    /\ ~speed_call.result.raised
    /\ speed_call.result.value.speed_kmh = [num |-> 36, den |-> 5]

\* --------------------------------------------------------------------- C17
\* C17: a measurement returned by calculate is valid, has frame_count > 0,
\* time_seconds > 0 and speed_kmh >= 0, and carries the frames, the track id
\* and the confidence it was given; constructing a SpeedMeasurement with
\* is_valid = True and frame_count <= 0, time_seconds <= 0 or speed_kmh < 0
\* raises.
C17_MeasurementInvariant ==
    /\ (speed_call.op = "calculate" /\ ~speed_call.result.raised)
          => LET m == speed_call.result.value
             IN  /\ m.is_valid
                 /\ m.frame_count > 0
                 /\ FracGreater(m.time_seconds, Zero)
                 /\ FracGeq(m.speed_kmh, Zero)
                 /\ m.left_crossing_frame = speed_call.left_crossing_frame
                 /\ m.right_crossing_frame = speed_call.right_crossing_frame
                 /\ m.track_id = speed_call.track_id
                 /\ m.confidence = speed_call.confidence
    /\ (/\ speed_call.op = "SpeedMeasurement"
        /\ speed_call.kwargs.is_valid
        /\ \/ speed_call.kwargs.frame_count <= 0
           \/ FracLeq(speed_call.kwargs.time_seconds, Zero)
           \/ FracLess(speed_call.kwargs.speed_kmh, Zero))
          => speed_call.result.raised

\* A SpeedMeasurement flagged valid, with a good frame count and time but a
\* negative speed, was refused.
C17_Witness ==
    /\ speed_call.op = "SpeedMeasurement"
    /\ speed_call.kwargs.is_valid
    /\ speed_call.kwargs.frame_count > 0
    /\ FracGreater(speed_call.kwargs.time_seconds, Zero)
    /\ FracLess(speed_call.kwargs.speed_kmh, Zero)
    /\ speed_call.result.raised

\* --------------------------------------------------------------------- C18
\* C18: calculate_from_tracked_car raises when either crossing frame is None
\* or right_crossing_frame <= left_crossing_frame; otherwise it returns what
\* calculate returns for the identity's two crossing frames and track_id.
C18_FromTrackedCar ==
    speed_call.op = "calculate_from_tracked_car" =>
        LET car == speed_call.tracked_car
        IN  IF \/ car.left_crossing_frame = None
               \/ car.right_crossing_frame = None
               \/ car.right_crossing_frame <= car.left_crossing_frame
            THEN speed_call.result.raised
            ELSE /\ ~speed_call.result.raised
                 /\ speed_call.result.value.left_crossing_frame = car.left_crossing_frame
                 /\ speed_call.result.value.right_crossing_frame = car.right_crossing_frame
                 /\ speed_call.result.value.track_id = car.track_id
                 /\ speed_call.result.value.frame_count =
                       car.right_crossing_frame - car.left_crossing_frame
                 /\ \E confidence \in {avg_confidence(car)} :
                       speed_call.result =
                           calculate(calculator, car.left_crossing_frame,
                                     car.right_crossing_frame, car.track_id, confidence)

\* A car with only its right crossing recorded was refused.
C18_Witness ==
    /\ speed_call.op = "calculate_from_tracked_car"
    /\ speed_call.tracked_car.left_crossing_frame = None
    /\ speed_call.tracked_car.right_crossing_frame # None
    /\ speed_call.result.raised

\* --------------------------------------------------------------------- C19
\* x2 of the single detection of frame f of the video.
VideoX2(f) == video[f][1].bounding_box.x2

\* The video shows one object, in every frame, each box overlapping the
\* previous one by the threshold or more.
SingleObjectVideo ==
    /\ Len(video) >= 1
    /\ \A f \in 1..Len(video) : Len(video[f]) = 1
    /\ \A f \in 1..(Len(video) - 1) :
          FracGeq(calculate_iou(video[f + 1][1], video[f][1]), iou_threshold)

\* The first frame in which the object's x2 is at or beyond a coordinate.
FirstFrameAt(coordinate, f) ==
    /\ f \in 1..Len(video)
    /\ VideoX2(f) >= coordinate
    /\ \A g \in 1..(f - 1) : VideoX2(g) < coordinate

\* C19: a run over a video of one object that starts before the left line,
\* first reaches it at frame a and first reaches the right line at a later
\* frame b ends with exactly one SpeedMeasurement, with left frame a, right
\* frame b, frame_count b - a and the speed of the configured distance over
\* b - a frames (frames 10 and 40, 200 cm, 30 fps: 7.2 km/h).
C19_EndToEndMeasurement ==
    (pc # "frames" /\ SingleObjectVideo /\ VideoX2(1) < left_coordinate) =>
        \A a, b \in 1..Len(video) :
            (FirstFrameAt(left_coordinate, a) /\ FirstFrameAt(right_coordinate, b) /\ a < b)
                => /\ pc = "done"
                   /\ Len(speed_measurements) = 1
                   /\ speed_measurements[1].left_crossing_frame = a
                   /\ speed_measurements[1].right_crossing_frame = b
                   /\ speed_measurements[1].frame_count = b - a
                   /\ speed_measurements[1].speed_kmh =
                         to_kmh(FracDiv(calculator.distance_meters,
                                        FracDiv(FracOfInt(b - a), calculator.fps)))

\* --------------------------------------------------------------------- C20
\* Frames i..j of the video show one car on its own: one detection a frame,
\* moving rightward in overlapping steps from at or before the left line to
\* beyond the right line, none of its boxes overlapping an earlier detection
\* by the threshold.
CarRun(i, j) ==
    /\ i < j
    /\ \A f \in i..j : Len(video[f]) = 1
    /\ \A f \in i..(j - 1) :
          /\ VideoX2(f) <= VideoX2(f + 1)
          /\ FracGeq(calculate_iou(video[f + 1][1], video[f][1]), iou_threshold)
    /\ VideoX2(i) <= left_coordinate
    /\ VideoX2(j) > right_coordinate
    /\ \A f \in 1..(i - 1), g \in i..j : \A n \in DOMAIN video[f] :
          FracLess(calculate_iou(video[g][1], video[f][n]), iou_threshold)

\* C20: at the end of a run every car that moved on its own from at or before
\* the left line to beyond the right line is an identity of its own, complete
\* with both crossing frames set; two such cars one after the other leave two
\* complete identities.
C20_SequentialCarsComplete ==
    pc # "frames" =>
        \A i, j \in 1..Len(video) :
            CarRun(i, j) =>
                \E k \in Tracks :
                    /\ tracked_cars[k].first_detection_frame = i
                    /\ is_complete(tracked_cars[k])

\* --------------------------------------------------------------------- C21
\* No box of identity k overlaps a box of identity m.
NeverOverlap(k, m) ==
    \A i \in DOMAIN tracked_cars[k].detections, j \in DOMAIN tracked_cars[m].detections :
        calculate_iou(tracked_cars[k].detections[i], tracked_cars[m].detections[j]) = Zero

\* The registry a fresh controller holds after frames frame_number..last_frame
\* of a video that shows the given detections and nothing else.
RECURSIVE TrackedAlone(_, _, _, _)
TrackedAlone(detections, frame_number, last_frame, st) ==
    IF frame_number > last_frame THEN st.cars
    ELSE TrackedAlone(detections, frame_number + 1, last_frame,
             process_frame(st,
                           SelectSeq(detections, LAMBDA d : d.frame_number = frame_number),
                           frame_number))

NewTracker == [cars |-> <<>>, order |-> <<>>, next_track_id |-> 1]

\* C21: when the identities tracked in a run have boxes that never overlap
\* one another, then after every frame each identity's detection history and
\* crossing frames are those of the single identity a run over its own
\* detections alone leaves.
C21_MultiIdentityIndependence ==
    (/\ queue = <<>>
     /\ Cardinality(Tracks) >= 2
     /\ \A k, m \in Tracks : k # m => NeverOverlap(k, m))
        => \A k \in Tracks :
              \E alone \in {TrackedAlone(tracked_cars[k].detections, 1, clock, NewTracker)} :
                  /\ DOMAIN alone = {1}
                  /\ alone[1].detections = tracked_cars[k].detections
                  /\ alone[1].left_crossing_frame = tracked_cars[k].left_crossing_frame
                  /\ alone[1].right_crossing_frame = tracked_cars[k].right_crossing_frame

\* --------------------------------------------------------------------- C22
\* The measurements of the output that carry track id k.
MeasurementsOf(k) ==
    {n \in DOMAIN speed_measurements : speed_measurements[n].track_id = k}

\* Frames i..b of the video show one car on its own, first seen at frame i
\* before the left line, reaching the left line first at frame a and the right
\* line first at the later frame b, in overlapping steps, none of its boxes
\* overlapping an earlier detection by the threshold.
CarCrossing(i, a, b) ==
    /\ i < a
    /\ a < b
    /\ b <= Len(video)
    /\ \A f \in i..b : Len(video[f]) = 1
    /\ \A f \in i..(b - 1) :
          FracGeq(calculate_iou(video[f + 1][1], video[f][1]), iou_threshold)
    /\ \A f \in i..(a - 1) : VideoX2(f) < left_coordinate
    /\ VideoX2(a) >= left_coordinate
    /\ \A f \in i..(b - 1) : VideoX2(f) < right_coordinate
    /\ VideoX2(b) >= right_coordinate
    /\ \A f \in 1..(i - 1), g \in i..b : \A n \in DOMAIN video[f] :
          FracLess(calculate_iou(video[g][1], video[f][n]), iou_threshold)

\* C22: the output of a run holds exactly one SpeedMeasurement for every
\* identity that completed both crossings during the run, the left one at
\* frame a and the right one at a later frame b, never two for one track id,
\* and none for an identity that is not complete.
C22_OneMeasurementPerCompletedIdentity ==
    pc # "frames" =>
        /\ \A k \in Tracks : Cardinality(MeasurementsOf(k)) <= 1
        /\ \A n \in DOMAIN speed_measurements :
              /\ speed_measurements[n].track_id \in Tracks
              /\ is_complete(tracked_cars[speed_measurements[n].track_id])
        /\ \A i, a, b \in 1..Len(video) :
              CarCrossing(i, a, b) =>
                  \E k \in Tracks :
                      /\ tracked_cars[k].first_detection_frame = i
                      /\ Cardinality(MeasurementsOf(k)) = 1
                      /\ \A n \in MeasurementsOf(k) :
                            /\ speed_measurements[n].left_crossing_frame = a
                            /\ speed_measurements[n].right_crossing_frame = b

\* --------------------------------------------------------------------- C23
NoIdentityComplete == \A k \in Tracks : ~is_complete(tracked_cars[k])

\* C23: a run that ends with no identity complete raises NoCarDetectedError
\* when the run saw no detection at all and CarNotCrossingBothCoordinatesError
\* when it saw one or more; a run in which an identity completed raises
\* neither.
C23_NoCarOrNotCrossing ==
    pc # "frames" =>
        IF NoIdentityComplete
        THEN /\ pc = "raised"
             /\ error_message = IF TotalDetections = 0
                                THEN "NoCarDetectedError"
                                ELSE "CarNotCrossingBothCoordinatesError"
        ELSE pc # "raised"

\* --------------------------------------------------------------------- C24
\* Frames i..a of the video show one car on its own, first seen at frame i
\* before the left line and at or beyond the right line at frame a, its first
\* frame at or beyond the left line: both lines are passed in one step, and
\* the measurement window of the car is empty.
JumpCrossing(i, a) ==
    /\ i < a
    /\ a <= Len(video)
    /\ \A f \in i..a : Len(video[f]) = 1
    /\ \A f \in i..(a - 1) :
          /\ FracGeq(calculate_iou(video[f + 1][1], video[f][1]), iou_threshold)
          /\ VideoX2(f) < left_coordinate
    /\ VideoX2(a) >= right_coordinate
    /\ \A f \in 1..(i - 1), g \in i..a : \A n \in DOMAIN video[f] :
          FracLess(calculate_iou(video[g][1], video[f][n]), iou_threshold)

InvalidWindow(tracked_car) ==
    is_complete(tracked_car) /\
        tracked_car.right_crossing_frame <= tracked_car.left_crossing_frame

\* C24: a run in which a car completes with an invalid measurement window
\* is not aborted: it returns its result, without a measurement for that car
\* and with the measurement of every other completed identity.
C24_InvalidWindowSkipped ==
    (pc # "frames" /\ \E i, a \in 1..Len(video) : JumpCrossing(i, a)) =>
        /\ pc = "done"
        /\ \A k \in Tracks :
              is_complete(tracked_cars[k]) =>
                  Cardinality(MeasurementsOf(k)) =
                      IF InvalidWindow(tracked_cars[k]) THEN 0 ELSE 1

\* --------------------------------------------------------------------- C25
\* C25: two calls of calculate_iou on the same two boxes, in either order,
\* return the same value.
C25_IouSymmetry ==
    \A m, n \in DOMAIN calls :
        (calls[m].box1 = calls[n].box2 /\ calls[m].box2 = calls[n].box1)
            => FracEq(calls[m].result, calls[n].result)

\* Both orders of two different boxes that overlap in part have been asked.
C25_Witness ==
    /\ Len(calls) = 2
    /\ calls[1].box1 # calls[1].box2
    /\ FracLess(Zero, calls[1].result)
    /\ FracLess(calls[1].result, FracOfInt(1))
    /\ calls[2].box1 = calls[1].box2
    /\ calls[2].box2 = calls[1].box1

\* --------------------------------------------------------------------- C26
PositiveBox(bbox) == width(bbox) > 0 /\ height(bbox) > 0

\* C26: the value calculate_iou returns for any two boxes, degenerate and
\* inverted ones included, is 0.0 or the quotient of an intersection and a
\* union with 0 < intersection <= union, so that 0 <= IoU <= 1; for a box of
\* positive width and height taken twice it is 1.
C26_IouBounds ==
    \A n \in DOMAIN calls :
        /\ \/ calls[n].result = Zero
           \/ /\ 0 < calls[n].result.num
              /\ calls[n].result.num <= calls[n].result.den
        /\ FracLeq(Zero, calls[n].result)
        /\ FracLeq(calls[n].result, FracOfInt(1))
        /\ (calls[n].box1 = calls[n].box2 /\ PositiveBox(calls[n].box1.bounding_box))
              => FracEq(calls[n].result, FracOfInt(1))

\* An inverted box has been compared with a box of positive area it lies
\* inside (0.0), and then that box with itself (1.0).
C26_Witness ==
    /\ Len(calls) = 2
    /\ width(calls[1].box1.bounding_box) < 0
    /\ height(calls[1].box1.bounding_box) < 0
    /\ PositiveBox(calls[1].box2.bounding_box)
    /\ calls[1].box1.bounding_box.x2 >= calls[1].box2.bounding_box.x1
    /\ calls[1].box1.bounding_box.x1 <= calls[1].box2.bounding_box.x2
    /\ calls[1].result = Zero
    /\ calls[2].box1 = calls[1].box2
    /\ calls[2].box2 = calls[1].box2
    /\ calls[2].result.num = calls[2].result.den
    /\ calls[2].result.num > 0

\* --------------------------------------------------------------------- C27
\* A box of zero or negative width or height.
Degenerate(bbox) == width(bbox) <= 0 \/ height(bbox) <= 0

DegenerateFed == {i \in DOMAIN returned.detections :
                     Degenerate(returned.detections[i].bounding_box)}

\* The identities the last update call created.
NewTracks == Tracks \ DOMAIN before

\* C27: an update call that is given detections with a degenerate box
\* returns; such a detection has IoU 0 with the last detection of every
\* identity and with itself, is appended to no existing identity, and is the
\* single detection of a new identity of its own; and an identity whose most
\* recent detection is degenerate is given no detection by the call.
C27_DegenerateBoxUnmatched ==
    UpdateStep =>
        /\ ~returned.raised
        /\ \A i \in DegenerateFed :
              /\ calculate_iou(returned.detections[i], returned.detections[i]) = Zero
              /\ \A k \in DOMAIN before :
                    calculate_iou(returned.detections[i], Last(before[k].detections)) = Zero
              /\ Cardinality({k \in NewTracks :
                                 tracked_cars[k].detections = <<returned.detections[i]>>})
                    = Cardinality({j \in DOMAIN returned.detections :
                                      returned.detections[j] = returned.detections[i]})
        /\ \A k \in DOMAIN before :
              /\ Len(tracked_cars[k].detections) > Len(before[k].detections)
                    => ~Degenerate(Last(tracked_cars[k].detections).bounding_box)
              /\ Degenerate(Last(before[k].detections).bounding_box)
                    => tracked_cars[k] = before[k]

\* An identity whose only detection is a degenerate box was fed the same box
\* again, together with a box of positive area that covers it.
C27_Witness ==
    /\ UpdateStep
    /\ Len(returned.detections) = 2
    /\ \E k \in DOMAIN before :
          /\ Degenerate(Last(before[k].detections).bounding_box)
          /\ returned.detections[1].bounding_box = Last(before[k].detections).bounding_box
          /\ PositiveBox(returned.detections[2].bounding_box)
          /\ returned.detections[2].bounding_box.x1 <= returned.detections[1].bounding_box.x2
          /\ returned.detections[2].bounding_box.x2 >= returned.detections[1].bounding_box.x1
          /\ tracked_cars[k] = before[k]
    /\ Cardinality(NewTracks) = 2

\* --------------------------------------------------------------------- C28
\* The fields of a Configuration that break the rules, each with the text
\* that names it.
ViolatedFields(kwargs) ==
    {f \in {"left_coordinate", "right_coordinate", "distance", "fps", "downsize_video"} :
        \/ f = "left_coordinate" /\ ~(kwargs.left_coordinate >= 0)
        \/ f = "right_coordinate" /\ ~(kwargs.right_coordinate > kwargs.left_coordinate)
        \/ f = "distance" /\ ~FracGreater(kwargs.distance, Zero)
        \/ f = "fps" /\ ~FracGreater(kwargs.fps, Zero)
        \/ f = "downsize_video" /\
              ~(kwargs.downsize_video = NoValue \/ kwargs.downsize_video[1] > 0)}

TextNaming(f) ==
    CASE f = "left_coordinate" -> "left_coordinate must be >= 0"
      [] f = "right_coordinate" -> "right_coordinate ({}) must be > left_coordinate ({})"
      [] f = "distance" -> "distance must be > 0"
      [] f = "fps" -> "fps must be > 0"
      [] f = "downsize_video" -> "downsize_video must be > 0 if specified"

\* C28: a Configuration is constructed only when left_coordinate >= 0,
\* right_coordinate > left_coordinate, distance > 0, fps > 0 and
\* downsize_video is None or > 0; otherwise the constructor raises
\* InvalidConfigurationError with a message that names every violated field
\* and no other.
C28_ConfigurationValidated ==
    \A n \in DOMAIN calls :
        calls[n].op = "Configuration" =>
            IF ViolatedFields(calls[n].kwargs) = {}
            THEN calls[n].result = Return(calls[n].kwargs)
            ELSE /\ calls[n].result.raised
                 /\ calls[n].result.error.type = "InvalidConfigurationError"
                 /\ {calls[n].result.error.message.joined[i].text :
                        i \in DOMAIN calls[n].result.error.message.joined}
                       = {TextNaming(f) : f \in ViolatedFields(calls[n].kwargs)}

\* A constructor call with every one of the five fields wrong has raised.
C28_Witness ==
    /\ Len(calls) = 1
    /\ calls[1].op = "Configuration"
    /\ Cardinality(ViolatedFields(calls[1].kwargs)) = 5
    /\ calls[1].result.raised
    /\ Len(calls[1].result.error.message.joined) = 5

\* --------------------------------------------------------------------- C29
\* The event a call at frame_number returns for a crossing of one kind by the
\* car as the call left it.
IsEventOf(e, tracked_car, frame_number, coordinate_type, coordinate_value) ==
    /\ e.track_id = tracked_car.track_id
    /\ e.frame_number = frame_number
    /\ e.coordinate_type = coordinate_type
    /\ e.coordinate_value = coordinate_value
    /\ e.car_center_x = Last(tracked_car.detections).bounding_box.x2
    /\ e.confidence = Last(tracked_car.detections).confidence

EventsOfType(events, coordinate_type) ==
    {i \in DOMAIN events : events[i].coordinate_type = coordinate_type}

\* C29: a detect_crossings call that sets a crossing frame returns, and what
\* it returns holds one 'left' event exactly when it set left_crossing_frame
\* and one 'right' event exactly when it set right_crossing_frame, each with
\* the car's track_id, the call's frame_number, the coordinate, the x2 and
\* the confidence of the car's latest detection; so no identity has a crossing
\* frame set without the event of that crossing returned.
C29_CrossingReturnsEvent ==
    /\ DetectStep =>
          /\ CarAfter # CarBefore => ~returned.raised
          /\ Cardinality(EventsOfType(returned.events, "left")) =
                IF CarAfter.left_crossing_frame # CarBefore.left_crossing_frame
                THEN 1 ELSE 0
          /\ Cardinality(EventsOfType(returned.events, "right")) =
                IF CarAfter.right_crossing_frame # CarBefore.right_crossing_frame
                THEN 1 ELSE 0
          /\ \A i \in EventsOfType(returned.events, "left") :
                IsEventOf(returned.events[i], CarAfter, returned.frame_number,
                          "left", left_coordinate)
          /\ \A i \in EventsOfType(returned.events, "right") :
                IsEventOf(returned.events[i], CarAfter, returned.frame_number,
                          "right", right_coordinate)
    /\ \A k \in Tracks :
          /\ tracked_cars[k].left_crossing_frame # None
                => CountType(emitted[k], "left") = 1
          /\ tracked_cars[k].right_crossing_frame # None
                => CountType(emitted[k], "right") = 1

\* --------------------------------------------------------------------- C30
\* C30: in the pipeline a detect_crossings call sets a crossing frame only
\* on a car that received a detection in the frame of the call (its
\* last_detection_frame is the call's frame_number); a call on a car without
\* a detection in that frame changes nothing, returns no event and does not
\* raise.
C30_CrossingOnlyOnDetection ==
    DetectStep =>
        /\ CarAfter.left_crossing_frame # CarBefore.left_crossing_frame
              => /\ CarAfter.left_crossing_frame = returned.frame_number
                 /\ CarAfter.last_detection_frame = returned.frame_number
        /\ CarAfter.right_crossing_frame # CarBefore.right_crossing_frame
              => /\ CarAfter.right_crossing_frame = returned.frame_number
                 /\ CarAfter.last_detection_frame = returned.frame_number
        /\ CarBefore.last_detection_frame # returned.frame_number
              => /\ CarAfter = CarBefore
                 /\ returned.events = <<>>
                 /\ ~returned.raised

\* --------------------------------------------------------------------- C31
\* C31: when several identities not yet matched in the call have the same
\* highest IoU (>= iou_threshold) with a detection, update appends the
\* detection to the one with the lowest track_id: the identity that receives
\* a detection has an IoU no unmatched identity exceeds, and every unmatched
\* identity that equals it has a track_id at least as large.
C31_TieBreakLowestTrackId ==
    UpdateStep =>
        \E g \in Assignments :
            \A i \in DOMAIN g :
                LET d == returned.detections[i]
                    unmatched == DOMAIN before \ {g[j] : j \in 1..(i - 1)}
                IN  g[i] \in DOMAIN before =>
                        \A k \in unmatched :
                            /\ ~FracGreater(IouBefore(d, k), IouBefore(d, g[i]))
                            /\ FracEq(IouBefore(d, k), IouBefore(d, g[i]))
                                  => before[g[i]].track_id <= before[k].track_id

\* Two identities whose latest boxes differ overlapped the single detection of
\* the call equally, by the threshold or more; the one with the lower
\* track_id received it.
C31_Witness ==
    /\ UpdateStep
    /\ Len(returned.detections) = 1
    /\ \E t1, t2 \in DOMAIN before :
          /\ before[t1].track_id < before[t2].track_id
          /\ Last(before[t1].detections).bounding_box #
                 Last(before[t2].detections).bounding_box
          /\ FracGeq(IouBefore(returned.detections[1], t1), iou_threshold)
          /\ FracEq(IouBefore(returned.detections[1], t1),
                    IouBefore(returned.detections[1], t2))
          /\ Appended(t1) = 1
          /\ Appended(t2) = 0

\* --------------------------------------------------------------------- C32
\* A car with its two crossing frames blanked: everything detect_crossings
\* must leave alone.
WithoutCrossingFrames(tracked_car) ==
    [tracked_car EXCEPT !.left_crossing_frame = None, !.right_crossing_frame = None]

\* C32: detect_crossings(T, f) modifies nothing but T.left_crossing_frame and
\* T.right_crossing_frame (T's history, first and last detection frame, every
\* other identity, the registry with its order and next_track_id stay as they
\* were), and update modifies no identity's crossing frames (an identity it
\* creates has none).
C32_FrameEffect ==
    [][/\ DetectStep' =>
              /\ DOMAIN tracked_cars' = DOMAIN tracked_cars
              /\ dict_order' = dict_order
              /\ next_track_id' = next_track_id
              /\ created' = created
              /\ \A k \in DOMAIN tracked_cars :
                    IF k = returned'.track_id
                    THEN WithoutCrossingFrames(tracked_cars'[k]) =
                             WithoutCrossingFrames(tracked_cars[k])
                    ELSE tracked_cars'[k] = tracked_cars[k]
       /\ UpdateStep' =>
              \A k \in DOMAIN tracked_cars' :
                  IF k \in DOMAIN tracked_cars
                  THEN /\ tracked_cars'[k].left_crossing_frame =
                              tracked_cars[k].left_crossing_frame
                       /\ tracked_cars'[k].right_crossing_frame =
                              tracked_cars[k].right_crossing_frame
                  ELSE /\ tracked_cars'[k].left_crossing_frame = None
                       /\ tracked_cars'[k].right_crossing_frame = None]_vars

\* detect_crossings recorded a left crossing for an identity while another
\* identity was registered, and a later update appended a detection to the
\* identity that had crossed.
C32_Witness ==
    /\ UpdateStep
    /\ \E k, m \in DOMAIN before :
          /\ k # m
          /\ Appended(k) = 1
          /\ before[k].left_crossing_frame # None
          /\ tracked_cars[k].left_crossing_frame = before[k].left_crossing_frame

\* --------------------------------------------------------------------- C33
\* C33: every identity in the registry has a non-empty detection history
\* that a call only extends by appending; first_detection_frame is the
\* frame_number of its first detection and is the same after a call as before
\* it, and last_detection_frame is the frame_number of the detection appended
\* most recently.
C33_TrackerBookkeeping ==
    \A k \in Tracks :
        /\ tracked_cars[k].detections # <<>>
        /\ tracked_cars[k].first_detection_frame =
               tracked_cars[k].detections[1].frame_number
        /\ tracked_cars[k].last_detection_frame =
               Last(tracked_cars[k].detections).frame_number
        /\ k \in DOMAIN before =>
               /\ IsPrefix(before[k].detections, tracked_cars[k].detections)
               /\ tracked_cars[k].first_detection_frame =
                      before[k].first_detection_frame

\* update appended a detection of a later frame to an identity created in an
\* earlier frame, next to an identity it left alone.
C33_Witness ==
    /\ UpdateStep
    /\ \E k, m \in DOMAIN before :
          /\ Appended(k) = 1
          /\ Appended(m) = 0
          /\ Len(tracked_cars[k].detections) >= 3
          /\ tracked_cars[k].first_detection_frame < before[k].last_detection_frame
          /\ before[k].last_detection_frame < tracked_cars[k].last_detection_frame

\* --------------------------------------------------------------------- C34
\* The frames the iteration has yielded so far, in order.
Yielded == SelectSeq(calls, LAMBDA c : c.op = "iter_frames")

Resized ==
    /\ calls # <<>>
    /\ calls[1].config.downsize_video # NoValue
    /\ calls[1].config.downsize_video[1] # calls[1].original_width

\* c is the coordinate scaled by target_width / original_width and
\* truncated (one less when the product is whole and the double fell short).
TruncatedScale(c, coordinate) ==
    LET target_width == calls[1].config.downsize_video[1]
        original_width == calls[1].original_width
    IN  /\ c * original_width <= coordinate * target_width
        /\ coordinate * target_width < (c + 1) * original_width
              \/ /\ coordinate * target_width = (c + 1) * original_width
                 /\ ~IsPowerOfTwo(scale_factor(target_width, original_width).den)

C37_CacheEvictsOldest ==
    [][(frame_cache' # frame_cache /\ Len(frame_cache) = frame_cache_size)
          => /\ frame_cache' = Append(Tail(frame_cache), current_frame_number')
             /\ current_frame_number' \in Range(frame_cache')]_vars

\* --------------------------------------------------------------------- C36
\* The workers inside process_frame on the window's detection controller.
Processing == {w \in DOMAIN workers : workers[w].pc \in {"process_frame", "updated"}}

\* C36: at most one DetectionWorker is ever executing process_frame against
\* the window's detection controller, and a worker that was terminated did
\* not stop between the tracker update of its frame and the crossing checks
\* that complete it.
C36_OneWorkerAtATime ==
    /\ Cardinality(Processing) <= 1
    /\ \A w \in DOMAIN workers : workers[w].terminated_at # "updated"

\* --------------------------------------------------------------------- C38
\* Nothing is left to happen in the window until the user acts again: no
\* handler is running, no signal is queued and no worker is running.
Quiescent ==
    /\ handler.pc = "idle"
    /\ posted = <<>>
    /\ \A w \in DOMAIN workers : ~isRunning(workers[w])

\* C38: the controls that _on_next_frame disabled are enabled again once the
\* detection run it requested is over, however it ended. The frame input is
\* disabled by _on_next_frame alone, so whenever the window is at rest it is
\* enabled.
C38_ControlsReenabled == Quiescent => controls.frame_input

====
